---------------------------- MODULE Spec2Model ----------------------------
(***************************************************************************)
(* ReadLog: the replica merge engine (importDB / exportDB over the Dexie   *)
(* Record Store) and the pairing state machine of SyncModal.               *)
(*                                                                         *)
(* Time is an integer instant (a JavaScript Date's epoch value).  One      *)
(* calendar day holds DayLen instants; ISO-8601 text is modelled as the    *)
(* pair <<date part, time part>>.  All devices share one time zone.        *)
(***************************************************************************)
EXTENDS Integers, Sequences, FiniteSets, TLC

\* ---------------------------------------------------------------- bounds
DayLen == 3          \* instants per calendar day
MaxTime == 3         \* instants are 0..MaxTime
MaxPages == 3        \* largest totalPages of a registered title
MaxBooks == 2        \* Books one device holds after live registration
MaxLogs == 1         \* Session-Logs one device records by live entry
MaxMerges == 1       \* importDB calls in one run of the device
SyncMaxBooks == 1    \* Books each device registers before a sync round
SyncMaxLogs == 2     \* Session-Logs each device records before a sync round
MaxRooms == 2        \* hosting sessions started while one modal is open
MaxCalls == 2        \* startJoining calls one modal could hold at a time
MaxModals == 2       \* times the sync modal is opened
HostSessions == 1    \* hosting sessions of the instance in the fair specification
MaxText == 2         \* code units in the body of a sealed payload
MaxArguments == 48   \* arguments the engine takes in one call (scaled to the payloads)
MaxJoins == 2        \* startJoining calls that pass the guard, over all modals

\* the (title, totalPages) pairs a user registers
NaturalKeys == {<<"Dune", MaxPages>>, <<"Dune", MaxPages - 1>>, <<"Emma", MaxPages>>}
\* the titles two devices register before they sync
SyncKeys == {<<"Dune", MaxPages>>, <<"Emma", MaxPages>>}
Instants == 0..MaxTime

\* ------------------------------------------------------- dates and JSON
Day(t) == t \div DayLen
\* Date.setHours(0, 0, 0, 0)
StartOfDay(t) == Day(t) * DayLen
\* Date.setHours(23, 59, 59, 999)
EndOfDay(t) == Day(t) * DayLen + (DayLen - 1)
\* JSON.stringify of a Date: ISO-8601 text <<date part, time part>>
ToISOString(t) == <<t \div DayLen, t % DayLen>>
\* new Date(isoText)
NewDate(iso) == iso[1] * DayLen + iso[2]

\* a JSON null array element
NullEntry == [null |-> TRUE]
IsNull(e) == "null" \in DOMAIN e

\* ------------------------------------------------------ the Record Store
\* Dexie tables books: '++id, title, lastReadDate, status' and
\* logs: '++id, bookId, date'; nextBookId / nextLogId are the key generators.
EmptyStore == [books |-> {}, logs |-> {}, nextBookId |-> 1, nextLogId |-> 1]

RECURSIVE SortById(_)
\* Table.toArray(): the records in primary-key order
SortById(S) ==
    IF S = {} THEN <<>>
    ELSE LET m == CHOOSE x \in S : \A y \in S : x.id <= y.id
         IN <<m>> \o SortById(S \ {m})

BookToJSON(b) ==
    [id |-> b.id, title |-> b.title, totalPages |-> b.totalPages,
     startDate |-> ToISOString(b.startDate),
     lastReadDate |-> ToISOString(b.lastReadDate), status |-> b.status]

LogToJSON(l) ==
    [id |-> l.id, bookId |-> l.bookId, date |-> ToISOString(l.date), page |-> l.page]

\* exportDB: JSON.stringify({ books, logs }), then JSON.parse at the receiver
ExportDB(st) ==
    LET bs == SortById(st.books)
        ls == SortById(st.logs)
    IN [books |-> [i \in 1..Len(bs) |-> BookToJSON(bs[i])],
        logs |-> [i \in 1..Len(ls) |-> LogToJSON(ls[i])]]

\* the logs of one Book
LogsOf(st, bookId) == {l \in st.logs : l.bookId = bookId}

\* Sidebar enrichment: where('bookId').equals(id).reverse().sortBy('date')[0].page,
\* 0 without logs; equal dates fall back to the reversed primary-key order.
CurrentPage(st, bookId) ==
    LET ls == LogsOf(st, bookId)
    IN IF ls = {} THEN 0
       ELSE (CHOOSE l \in ls : \A o \in ls :
                 \/ o.date < l.date
                 \/ (o.date = l.date /\ o.id <= l.id)).page

\* ------------------------------------------------------------- importDB
\* bookMap.set(k, v)
MapSet(m, k, v) == [x \in (DOMAIN m) \cup {k} |-> IF x = k THEN v ELSE m[x]]

\* The transaction's working state when importDB enters db.transaction.
BeginImport(st) ==
    [ok |-> TRUE, books |-> st.books, logs |-> st.logs,
     nextBookId |-> st.nextBookId, nextLogId |-> st.nextLogId,
     bookMap |-> <<>>, booksImported |-> 0, logsImported |-> 0]

\* mutant: the look-up without the totalPages filter
MatchingBooksByTitle(books, extBook) ==
    {b \in books : b.title = extBook.title}

\* db.books.where('title').equals(title).filter(b => b.totalPages === n)
MatchingBooks(books, extBook) ==
    {b \in books : b.title = extBook.title /\ b.totalPages = extBook.totalPages}

\* .first(): the title index lists equal titles in primary-key order
First(S) == CHOOSE x \in S : \A y \in S : x.id <= y.id

\* mutant: the foreign Book overwrites lastReadDate and status when it was read
\* later, and startDate is left alone
UnionBookNewerWins(existingBook, extBook) ==
    IF NewDate(extBook.lastReadDate) > existingBook.lastReadDate
    THEN [existingBook EXCEPT !.lastReadDate = NewDate(extBook.lastReadDate),
                              !.status = extBook.status]
    ELSE existingBook

\* mutant: the status of the foreign Book wins
UnionBookForeignStatus(existingBook, extBook) ==
    LET extStart == NewDate(extBook.startDate)
        extLast == NewDate(extBook.lastReadDate)
    IN [existingBook EXCEPT
          !.startDate = IF extStart < existingBook.startDate
                        THEN extStart ELSE existingBook.startDate,
          !.lastReadDate = IF extLast > existingBook.lastReadDate
                           THEN extLast ELSE existingBook.lastReadDate,
          !.status = extBook.status]

\* mutant: only the status is merged, the dates of the local Book stay
UnionBookStatusOnly(existingBook, extBook) ==
    [existingBook EXCEPT
       !.status = IF extBook.status = "completed" \/ existingBook.status = "completed"
                  THEN "completed" ELSE "reading"]

\* the union written by db.books.update for a matched Book
UnionBook(existingBook, extBook) ==
    LET extStart == NewDate(extBook.startDate)
        extLast == NewDate(extBook.lastReadDate)
    IN [existingBook EXCEPT
          !.startDate = IF extStart < existingBook.startDate
                        THEN extStart ELSE existingBook.startDate,
          !.lastReadDate = IF extLast > existingBook.lastReadDate
                           THEN extLast ELSE existingBook.lastReadDate,
          !.status = IF extBook.status = "completed" \/ existingBook.status = "completed"
                     THEN "completed" ELSE "reading"]

\* mutant: the new Book's startDate is copied from lastReadDate
NewBookOneDate(extBook, localId) ==
    [id |-> localId, title |-> extBook.title, totalPages |-> extBook.totalPages,
     startDate |-> NewDate(extBook.lastReadDate),
     lastReadDate |-> NewDate(extBook.lastReadDate), status |-> extBook.status]

\* the record db.books.add stores for an unmatched foreign Book
NewBook(extBook, localId) ==
    [id |-> localId, title |-> extBook.title, totalPages |-> extBook.totalPages,
     startDate |-> NewDate(extBook.startDate),
     lastReadDate |-> NewDate(extBook.lastReadDate), status |-> extBook.status]

\* mutant: every foreign Book is added, matched or not
ProcessBookAlwaysAdds(tx, extBook) ==
    IF IsNull(extBook) THEN [tx EXCEPT !.ok = FALSE]
    ELSE
      LET localId == tx.nextBookId
          t1 == [tx EXCEPT !.books = @ \cup {NewBook(extBook, localId)},
                           !.nextBookId = @ + 1,
                           !.booksImported = @ + 1]
      IN IF extBook.id # 0
         THEN [t1 EXCEPT !.bookMap = MapSet(@, extBook.id, localId)]
         ELSE t1

\* one iteration of "for (const extBook of extBooks)"
ProcessBook(tx, extBook) ==
    IF IsNull(extBook) THEN [tx EXCEPT !.ok = FALSE]   \* extBook.title throws
    ELSE
      LET matches == MatchingBooks(tx.books, extBook)
          existingBook == First(matches)
          localId == IF matches # {} THEN existingBook.id ELSE tx.nextBookId
          t1 == IF matches # {}
                THEN [tx EXCEPT !.books = (@ \ {existingBook})
                                           \cup {UnionBook(existingBook, extBook)}]
                ELSE [tx EXCEPT !.books = @ \cup {NewBook(extBook, localId)},
                                !.nextBookId = @ + 1,
                                !.booksImported = @ + 1]
      IN IF extBook.id # 0
         THEN [t1 EXCEPT !.bookMap = MapSet(@, extBook.id, localId)]
         ELSE t1

RECURSIVE ProcessBooks(_, _, _)
ProcessBooks(tx, extBooks, i) ==
    IF i > Len(extBooks) \/ ~tx.ok THEN tx
    ELSE ProcessBooks(ProcessBook(tx, extBooks[i]), extBooks, i + 1)

\* mutant: the day's last instant is left out of the range
LogExistsOpenEnd(logs, localBookId, extLog) ==
    LET extDate == NewDate(extLog.date)
    IN \E l \in logs : /\ l.bookId = localBookId
                       /\ l.page = extLog.page
                       /\ l.date >= StartOfDay(extDate)
                       /\ l.date < EndOfDay(extDate)

\* mutant: the duplicate test compares the exact instants
LogExistsExactTime(logs, localBookId, extLog) ==
    \E l \in logs : /\ l.bookId = localBookId
                    /\ l.page = extLog.page
                    /\ l.date = NewDate(extLog.date)

\* mutant: the duplicate test ignores the date
LogExistsAnyDay(logs, localBookId, extLog) ==
    \E l \in logs : /\ l.bookId = localBookId
                    /\ l.page = extLog.page

\* the duplicate test: same Book, same page, date within the foreign Log's day
LogExists(logs, localBookId, extLog) ==
    LET extDate == NewDate(extLog.date)
        startOfDay == StartOfDay(extDate)
        endOfDay == EndOfDay(extDate)
    IN \E l \in logs : /\ l.bookId = localBookId
                       /\ l.page = extLog.page
                       /\ l.date >= startOfDay
                       /\ l.date <= endOfDay

\* mutant: a Log whose bookId is not in bookMap is stored under its foreign id
ProcessLogKeepsForeignId(tx, extLog) ==
    IF IsNull(extLog) THEN [tx EXCEPT !.ok = FALSE]
    ELSE
      LET localBookId == IF extLog.bookId \in DOMAIN tx.bookMap
                         THEN tx.bookMap[extLog.bookId] ELSE extLog.bookId
      IN IF LogExists(tx.logs, localBookId, extLog) THEN tx
         ELSE [tx EXCEPT !.logs = @ \cup {[id |-> tx.nextLogId, bookId |-> localBookId,
                                           date |-> NewDate(extLog.date),
                                           page |-> extLog.page]},
                         !.nextLogId = @ + 1,
                         !.logsImported = @ + 1]

\* mutant: the Log is stored with the start of its day
ProcessLogStoresDayStart(tx, extLog) ==
    IF IsNull(extLog) THEN [tx EXCEPT !.ok = FALSE]
    ELSE IF extLog.bookId \notin DOMAIN tx.bookMap THEN tx
    ELSE
      LET localBookId == tx.bookMap[extLog.bookId]
      IN IF LogExists(tx.logs, localBookId, extLog) THEN tx
         ELSE [tx EXCEPT !.logs = @ \cup {[id |-> tx.nextLogId, bookId |-> localBookId,
                                           date |-> StartOfDay(NewDate(extLog.date)),
                                           page |-> extLog.page]},
                         !.nextLogId = @ + 1,
                         !.logsImported = @ + 1]

\* one iteration of "for (const extLog of extLogs)"
ProcessLog(tx, extLog) ==
    IF IsNull(extLog) THEN [tx EXCEPT !.ok = FALSE]    \* extLog.bookId throws
    ELSE IF extLog.bookId \notin DOMAIN tx.bookMap THEN tx       \* continue
    ELSE
      LET localBookId == tx.bookMap[extLog.bookId]
      IN IF LogExists(tx.logs, localBookId, extLog) THEN tx
         ELSE [tx EXCEPT !.logs = @ \cup {[id |-> tx.nextLogId, bookId |-> localBookId,
                                           date |-> NewDate(extLog.date),
                                           page |-> extLog.page]},
                         !.nextLogId = @ + 1,
                         !.logsImported = @ + 1]

RECURSIVE ProcessLogs(_, _, _)
ProcessLogs(tx, extLogs, i) ==
    IF i > Len(extLogs) \/ ~tx.ok THEN tx
    ELSE ProcessLogs(ProcessLog(tx, extLogs[i]), extLogs, i + 1)

\* mutant: an absent record kind read as an empty list
ImportBodyLenient(st, data) ==
    LET tx0 == BeginImport(st)
        tx1 == IF "books" \in DOMAIN data THEN ProcessBooks(tx0, data.books, 1) ELSE tx0
    IN IF ~tx1.ok \/ "logs" \notin DOMAIN data THEN tx1
       ELSE ProcessLogs(tx1, data.logs, 1)

\* The body of the transaction: the working state it ends in; ok = FALSE when
\* an exception left it (iterating an absent array, reading a null element).
ImportBody(st, data) ==
    LET tx0 == BeginImport(st)
    IN IF "books" \notin DOMAIN data THEN [tx0 EXCEPT !.ok = FALSE]
       ELSE LET tx1 == ProcessBooks(tx0, data.books, 1)
            IN IF ~tx1.ok THEN tx1
               ELSE IF "logs" \notin DOMAIN data THEN [tx1 EXCEPT !.ok = FALSE]
               ELSE ProcessLogs(tx1, data.logs, 1)

\* mutant: no rollback, what the body wrote before it threw stays
TransactionNoRollback(st, tx) ==
    [books |-> tx.books, logs |-> tx.logs,
     nextBookId |-> tx.nextBookId, nextLogId |-> tx.nextLogId]

\* db.transaction('rw', db.books, db.logs, ...): the working state commits when
\* the body returns and the store is rolled back when the body throws.
Transaction(st, tx) ==
    IF tx.ok
    THEN [books |-> tx.books, logs |-> tx.logs,
          nextBookId |-> tx.nextBookId, nextLogId |-> tx.nextLogId]
    ELSE st

\* importDB(json): the store it leaves and what it returns (or that it threw)
ImportDB(st, data) ==
    LET tx == ImportBody(st, data)
    IN [store |-> Transaction(st, tx), ok |-> tx.ok,
        booksImported |-> tx.booksImported, logsImported |-> tx.logsImported]

\* handleImport's test of a parsed backup file: "Invalid format" when a record
\* kind is missing (an array, even an empty one, passes)
InvalidFormat(data) == "books" \notin DOMAIN data \/ "logs" \notin DOMAIN data

\* ------------------------------------------------------ foreign snapshots
Statuses == {"reading", "completed"}
\* page numbers typed into the progress form or carried by a foreign Log
PageInputs == {MaxPages - 1, MaxPages}
\* ids the exporting device gave its Books; UnmappedId is the bookId of a Log
\* whose Book is not in the snapshot
ForeignId1 == MaxBooks + 1
ForeignId2 == MaxBooks + 2
UnmappedId == MaxBooks + 3

ForeignBook(id, key, start, last, status) ==
    [id |-> id, title |-> key[1], totalPages |-> key[2],
     startDate |-> ToISOString(start), lastReadDate |-> ToISOString(last),
     status |-> status]

ForeignLog(bookId, t, page) ==
    [id |-> 1, bookId |-> bookId, date |-> ToISOString(t), page |-> page]

\* one foreign Book of any key: started first and read last, or started and
\* read in between, reading or completed
SingleBooks ==
    {ForeignBook(ForeignId1, k, 0, MaxTime, "reading") : k \in NaturalKeys}
    \cup {ForeignBook(ForeignId1, k, 1, MaxTime - 1, "completed") : k \in NaturalKeys}
    \cup {ForeignBook(ForeignId1, k, MaxTime - 1, MaxTime - 1, "reading") : k \in NaturalKeys}

\* snapshots that vary the Books: none, one, or one followed by a second Book
\* under another foreign id (of the same natural key, or of another)
BookSnapshots ==
    {[books |-> <<>>, logs |-> <<>>]}
    \cup {[books |-> <<b>>, logs |-> <<>>] : b \in SingleBooks}
    \cup {[books |-> <<b, ForeignBook(ForeignId2, k, 1, 1, "completed")>>, logs |-> <<>>] :
             b \in SingleBooks, k \in {<<"Dune", MaxPages>>, <<"Emma", MaxPages>>}}

\* snapshots that vary the Logs of one Book: one Log at any instant and page
\* (of the Book, or of a Book the snapshot does not list), or two Logs of the
\* same page
LogSnapshots ==
    LET books(k) == <<ForeignBook(ForeignId1, k, 0, MaxTime, "reading")>>
        keys == {<<"Dune", MaxPages>>, <<"Dune", MaxPages - 1>>}
    IN {[books |-> books(k), logs |-> <<ForeignLog(ForeignId1, t, p)>>] :
           k \in keys, t \in Instants, p \in PageInputs}
       \cup {[books |-> books(k), logs |-> <<ForeignLog(UnmappedId, t, MaxPages)>>] :
           k \in keys, t \in Instants}
       \cup {[books |-> books(k),
              logs |-> <<ForeignLog(ForeignId1, t, MaxPages - 1),
                         ForeignLog(ForeignId1, u, MaxPages - 1)>>] :
           k \in keys, t \in Instants, u \in Instants}
       \cup {[books |-> books(k),
              logs |-> <<ForeignLog(UnmappedId, t, MaxPages - 1),
                         ForeignLog(ForeignId1, t, MaxPages)>>] :
           k \in keys, t \in {0, MaxTime}}

\* the snapshot of the worked example: one completed Book, a Log of an earlier
\* page on the first day and a Log of the last page on a later day
ScenarioSnapshots ==
    {[books |-> <<ForeignBook(ForeignId1, <<"Dune", MaxPages>>, 0, MaxTime, "completed")>>,
      logs |-> <<ForeignLog(ForeignId1, t, MaxPages - 1),
                 ForeignLog(ForeignId1, u, MaxPages)>>] :
        t \in {i \in Instants : Day(i) = 0}, u \in {i \in Instants : Day(i) > 0}}

\* snapshots on which importDB throws: the logs array is absent after a Book,
\* a null Book after a good one, a null Log after a good one
MalformedSnapshots ==
    LET b(k) == ForeignBook(ForeignId1, k, 0, MaxTime, "completed")
    IN {[books |-> <<b(k)>>] : k \in NaturalKeys}
       \cup {[books |-> <<b(k), NullEntry>>, logs |-> <<>>] : k \in NaturalKeys}
       \cup {[books |-> <<b(k)>>,
              logs |-> <<ForeignLog(ForeignId1, t, MaxPages), NullEntry>>] :
                k \in NaturalKeys, t \in {0, MaxTime}}

\* the version tag handleExport writes into a backup file, and one it never wrote
CurrentVersion == 1
VersionTags == {CurrentVersion, CurrentVersion + 1}
\* backup files: both record kinds and a version tag; and a file without books
VersionedSnapshots ==
    {[version |-> v,
      books |-> <<ForeignBook(ForeignId1, k, 0, MaxTime, "completed")>>,
      logs |-> <<ForeignLog(ForeignId1, 0, MaxPages)>>] :
        k \in NaturalKeys, v \in VersionTags}
    \cup {[version |-> CurrentVersion, logs |-> <<ForeignLog(ForeignId1, 0, MaxPages)>>]}

Snapshots ==
    BookSnapshots \cup LogSnapshots \cup ScenarioSnapshots
    \cup MalformedSnapshots \cup VersionedSnapshots

\* ----------------------------------------------------------- the devices
\* host: the device that shares first (and the single device of Spec);
\* joiner: the device that scans the code
Devices == {"host", "joiner"}

VARIABLES
    store,    \* each device's Record Store
    clock,    \* each device's clock: the last instant its new Date() returned
    hist,     \* the last operation; for importDB its input, outcome and pre-state
    merges,   \* importDB calls so far
    sync,     \* the sync round: idle, hosted, joined, done
    relay,    \* the snapshots the relay holds: blob (the host's), response (the joiner's)
    pair      \* the host's SyncModal: React state, refs and pending async calls

vars == <<store, clock, hist, merges, sync, relay, pair>>

db == store["host"]
now == clock["host"]

Live == [op |-> "live"]

\* Sidebar.handleAddBook: db.books.add({title, totalPages, startDate: new Date(),
\* lastReadDate: new Date(), status: 'reading'}); no look-up of the natural key
AddBook(st, key, t) ==
    [st EXCEPT !.books = @ \cup {[id |-> st.nextBookId, title |-> key[1],
                                  totalPages |-> key[2], startDate |-> t,
                                  lastReadDate |-> t, status |-> "reading"]},
               !.nextBookId = @ + 1]

HandleAddBook(d, key, t, maxBooks) ==
    /\ Cardinality(store[d].books) < maxBooks
    /\ store[d].nextBookId <= maxBooks
    /\ t >= clock[d]
    /\ store' = [store EXCEPT ![d] = AddBook(@, key, t)]
    /\ clock' = [clock EXCEPT ![d] = t]
    /\ hist' = Live
    /\ UNCHANGED <<merges, sync, relay, pair>>

\* mutant: a Book once completed stays completed
AddLogStaysCompleted(st, book, newPage, t) ==
    [st EXCEPT
       !.logs = @ \cup {[id |-> st.nextLogId, bookId |-> book.id,
                         date |-> t, page |-> newPage]},
       !.nextLogId = @ + 1,
       !.books = (@ \ {book}) \cup
                 {[book EXCEPT !.lastReadDate = t,
                               !.status = IF newPage = book.totalPages
                                             \/ book.status = "completed"
                                          THEN "completed" ELSE "reading"]}]

\* the transaction of BookDetail.handleAddLog: the Log is added and the Book's
\* lastReadDate and status are updated
AddLog(st, book, newPage, t) ==
    [st EXCEPT
       !.logs = @ \cup {[id |-> st.nextLogId, bookId |-> book.id,
                         date |-> t, page |-> newPage]},
       !.nextLogId = @ + 1,
       !.books = (@ \ {book}) \cup
                 {[book EXCEPT !.lastReadDate = t,
                               !.status = IF newPage = book.totalPages
                                          THEN "completed" ELSE "reading"]}]

\* mutant: the page is not compared with totalPages
HandleAddLogNoLimit(d, book, newPage, t, maxLogs) ==
    /\ book \in store[d].books
    /\ Cardinality(store[d].logs) < maxLogs
    /\ store[d].nextLogId <= maxLogs
    /\ t >= clock[d]
    /\ store' = [store EXCEPT ![d] = AddLog(@, book, newPage, t)]
    /\ clock' = [clock EXCEPT ![d] = t]
    /\ hist' = Live
    /\ UNCHANGED <<merges, sync, relay, pair>>

\* BookDetail.handleAddLog: a page above totalPages only raises the warning
HandleAddLog(d, book, newPage, t, maxLogs) ==
    /\ book \in store[d].books
    /\ newPage <= book.totalPages
    /\ Cardinality(store[d].logs) < maxLogs
    /\ store[d].nextLogId <= maxLogs
    /\ t >= clock[d]
    /\ store' = [store EXCEPT ![d] = AddLog(@, book, newPage, t)]
    /\ clock' = [clock EXCEPT ![d] = t]
    /\ hist' = Live
    /\ UNCHANGED <<merges, sync, relay, pair>>

\* mutant: the Book is deleted and its Logs stay
DeleteBookKeepsLogs(st, book) ==
    [st EXCEPT !.books = @ \ {book}]

\* BookDetail.handleDeleteBook: one transaction deletes the Book's Logs and the Book
DeleteBook(st, book) ==
    [st EXCEPT !.logs = {l \in @ : l.bookId # book.id},
               !.books = @ \ {book}]

HandleDeleteBook(d, book) ==
    /\ book \in store[d].books
    /\ store' = [store EXCEPT ![d] = DeleteBook(@, book)]
    /\ hist' = Live
    /\ UNCHANGED <<clock, merges, sync, relay, pair>>

\* startJoining's "const stats = await importDB(rawData)" on a decrypted snapshot
Import(d, data) ==
    /\ merges < MaxMerges
    /\ merges' = merges + 1
    /\ LET r == ImportDB(store[d], data)
       IN /\ store' = [store EXCEPT ![d] = r.store]
          /\ hist' = [op |-> "import", pre |-> store[d], snap |-> data, ok |-> r.ok,
                      booksImported |-> r.booksImported,
                      logsImported |-> r.logsImported]
    /\ UNCHANGED <<clock, sync, relay, pair>>

\* one SyncModal instance: useState / useRef initial values, no async call
\* pending.  A call of startJoining in progress is a record of calls.
Rooms == 1..MaxRooms
PairInit ==
    [open |-> TRUE,                \* the instance is mounted
     mode |-> "host",
     step |-> "idle",
     syncStats |-> <<>>,           \* null, or <<books, logs>>
     isFullyComplete |-> FALSE,
     stopPollingRef |-> FALSE,
     joinInProgress |-> FALSE,
     scanner |-> FALSE,            \* html5QrCodeRef.current.isScanning
     hosting |-> 0,                \* startHosting calls awaiting their upload
     rooms |-> 0,                  \* rooms generated so far (newRoomId)
     poll |-> [r \in Rooms |-> "none"],    \* pollForResponse(r): none, inflight, timer
     topic |-> [r \in Rooms |-> <<>>],     \* the responses published on room r's topic
     joins |-> 0,                  \* startJoining calls that passed the guard
     left |-> [r \in Rooms |-> FALSE],     \* step has left ready since room r was shown
     calls |-> <<>>]               \* the startJoining calls in progress

Init ==
    /\ store = [d \in Devices |-> EmptyStore]
    /\ clock = [d \in Devices |-> 0]
    /\ hist = Live
    /\ merges = 0
    /\ sync = "idle"
    /\ relay = <<>>
    /\ pair = <<PairInit>>

\* one device: live entry and one merge of a foreign snapshot
Next ==
    \/ \E k \in NaturalKeys, t \in Instants : HandleAddBook("host", k, t, MaxBooks)
    \/ \E b \in db.books, p \in PageInputs, t \in Instants :
          HandleAddLog("host", b, p, t, MaxLogs)
    \/ \E b \in db.books : HandleDeleteBook("host", b)
    \/ \E x \in Snapshots : Import("host", x)

Spec == Init /\ [][Next]_vars

\* ------------------------------------------------- the bidirectional round
\* startHosting: const rawData = await exportDB(), sealed and uploaded
HostExport ==
    /\ sync = "idle"
    /\ sync' = "hosted"
    /\ relay' = [blob |-> ExportDB(store["host"])]
    /\ UNCHANGED <<store, clock, hist, merges, pair>>

\* the joiner's startJoining and sendResponseBack: importDB of the host's
\* snapshot, then exportDB of the merged store as the response
JoinerMerge ==
    /\ sync = "hosted"
    /\ sync' = "joined"
    /\ LET r == ImportDB(store["joiner"], relay.blob)
       IN /\ store' = [store EXCEPT !["joiner"] = r.store]
          /\ relay' = [blob |-> relay.blob, response |-> ExportDB(r.store)]
    /\ UNCHANGED <<clock, hist, merges, pair>>

\* the host's pollForResponse and startJoining(respId, respPin, true): importDB
\* of the joiner's response
HostMerge ==
    /\ sync = "joined"
    /\ sync' = "done"
    /\ store' = [store EXCEPT !["host"] = ImportDB(@, relay.response).store]
    /\ UNCHANGED <<clock, hist, merges, relay, pair>>

\* two devices: live entry on each while no round runs, then one round
SyncNext ==
    \/ /\ sync = "idle"
       /\ \/ \E d \in Devices, k \in SyncKeys, t \in Instants :
                HandleAddBook(d, k, t, SyncMaxBooks)
          \/ \E d \in Devices, p \in PageInputs, t \in Instants :
                \E b \in store[d].books : HandleAddLog(d, b, p, t, SyncMaxLogs)
    \/ HostExport
    \/ JoinerMerge
    \/ HostMerge

SpecSync == Init /\ [][SyncNext]_vars

\* ------------------------------ the build that stores Book.currentPage
\* Book.currentPage is optional in a stored record: undefined is an absent field
HasPage(b) == "currentPage" \in DOMAIN b
WithPage(b, p) == [currentPage |-> p] @@ b

\* migrateCurrentPage: only a Book whose currentPage is undefined gets the page
\* of its latest Log (0 without Logs)
MigrateCurrentPage(st) ==
    [st EXCEPT !.books = {IF HasPage(b) THEN b ELSE WithPage(b, CurrentPage(st, b.id)) :
                             b \in st.books}]

\* "Update dates/progress if external is newer": lastReadDate, status and
\* currentPage: extBook.currentPage ?? existingBook.currentPage
StoredUpdateBook(existingBook, extBook) ==
    IF NewDate(extBook.lastReadDate) > existingBook.lastReadDate
    THEN LET b == [existingBook EXCEPT !.lastReadDate = NewDate(extBook.lastReadDate),
                                       !.status = extBook.status]
         IN IF HasPage(extBook) THEN WithPage(b, extBook.currentPage) ELSE b
    ELSE existingBook

\* "Add new book": currentPage: bookData.currentPage ?? 0
StoredNewBook(extBook, localId) ==
    WithPage(NewBook(extBook, localId),
             IF HasPage(extBook) THEN extBook.currentPage ELSE 0)

StoredProcessBook(tx, extBook) ==
    LET matches == MatchingBooks(tx.books, extBook)
        existingBook == First(matches)
    IN IF matches # {}
       THEN [tx EXCEPT !.books = (@ \ {existingBook})
                                  \cup {StoredUpdateBook(existingBook, extBook)}]
       ELSE [tx EXCEPT !.books = @ \cup {StoredNewBook(extBook, tx.nextBookId)},
                       !.nextBookId = @ + 1]

RECURSIVE StoredProcessBooks(_, _, _)
StoredProcessBooks(tx, extBooks, i) ==
    IF i > Len(extBooks) THEN tx
    ELSE StoredProcessBooks(StoredProcessBook(tx, extBooks[i]), extBooks, i + 1)

RECURSIVE StoredBookMap(_, _, _, _)
\* "Build a map based on title/pages matching": allBooks.find(...) per foreign Book
StoredBookMap(m, books, extBooks, i) ==
    IF i > Len(extBooks) THEN m
    ELSE LET matches == MatchingBooks(books, extBooks[i])
         IN StoredBookMap(IF matches # {} /\ extBooks[i].id # 0
                          THEN MapSet(m, extBooks[i].id, First(matches).id) ELSE m,
                          books, extBooks, i + 1)

\* "Check if log exists": same Book, same page, same instant
StoredProcessLog(tx, extLog) ==
    IF extLog.bookId \notin DOMAIN tx.bookMap THEN tx
    ELSE
      LET localBookId == tx.bookMap[extLog.bookId]
          exists == \E l \in tx.logs : /\ l.bookId = localBookId
                                        /\ l.page = extLog.page
                                        /\ l.date = NewDate(extLog.date)
      IN IF exists THEN tx
         ELSE [tx EXCEPT !.logs = @ \cup {[id |-> tx.nextLogId, bookId |-> localBookId,
                                           date |-> NewDate(extLog.date),
                                           page |-> extLog.page]},
                         !.nextLogId = @ + 1]

RECURSIVE StoredProcessLogs(_, _, _)
StoredProcessLogs(tx, extLogs, i) ==
    IF i > Len(extLogs) THEN tx
    ELSE StoredProcessLogs(StoredProcessLog(tx, extLogs[i]), extLogs, i + 1)

\* importDB of this build: merge the Books, map the ids, merge the Logs, and
\* the "final pass" migrateCurrentPage()
StoredImportDB(st, data) ==
    LET tx1 == StoredProcessBooks(BeginImport(st), data.books, 1)
        tx2 == [tx1 EXCEPT !.bookMap = StoredBookMap(<<>>, tx1.books, data.books, 1)]
        tx3 == StoredProcessLogs(tx2, data.logs, 1)
    IN MigrateCurrentPage(Transaction(st, tx3))

\* snapshots of this build: one Book without or with a currentPage, and no Log
\* or one Log of it
StoredSnapshots ==
    LET withPage == SingleBooks \cup {WithPage(b, p) : b \in SingleBooks, p \in {0, MaxPages}}
    IN {[books |-> <<b>>, logs |-> <<>>] : b \in withPage}
       \cup {[books |-> <<b>>, logs |-> <<ForeignLog(ForeignId1, t, p)>>] :
                b \in withPage, t \in {0, MaxTime}, p \in PageInputs}

\* the app's start: migrateCurrentPage() backfills the Books entered so far
Migrate(d) ==
    /\ \E b \in store[d].books : ~HasPage(b)
    /\ store' = [store EXCEPT ![d] = MigrateCurrentPage(@)]
    /\ hist' = Live
    /\ UNCHANGED <<clock, merges, sync, relay, pair>>

StoredImport(d, data) ==
    /\ merges < MaxMerges
    /\ merges' = merges + 1
    /\ store' = [store EXCEPT ![d] = StoredImportDB(@, data)]
    /\ hist' = [op |-> "importStored", pre |-> store[d], snap |-> data, ok |-> TRUE]
    /\ UNCHANGED <<clock, sync, relay, pair>>

StoredNext ==
    \/ \E k \in NaturalKeys, t \in Instants : HandleAddBook("host", k, t, MaxBooks)
    \/ \E b \in db.books, p \in PageInputs, t \in Instants :
          HandleAddLog("host", b, p, t, MaxLogs)
    \/ Migrate("host")
    \/ \E x \in StoredSnapshots : StoredImport("host", x)

SpecStored == Init /\ [][StoredNext]_vars

\* ------------------------------------- the build whose importDB replaces
\* bulkAdd rejects the transaction on a null entry or on two records of one id
ReplaceThrows(data) ==
    \/ "books" \notin DOMAIN data
    \/ "logs" \notin DOMAIN data
    \/ \E i \in DOMAIN data.books : IsNull(data.books[i])
    \/ \E i \in DOMAIN data.logs : IsNull(data.logs[i])
    \/ \E i, j \in DOMAIN data.books : i # j /\ data.books[i].id = data.books[j].id
    \/ \E i, j \in DOMAIN data.logs : i # j /\ data.logs[i].id = data.logs[j].id

\* the key generator after records with explicit keys were added
NextKey(next, ids) == IF ids = {} THEN next
                      ELSE LET m == CHOOSE x \in ids : \A y \in ids : y <= x
                           IN IF m >= next THEN m + 1 ELSE next

\* importDB of this build: both tables are cleared and the snapshot's records
\* are added under their foreign ids, the dates restored
ReplaceImportDB(st, data) ==
    IF ReplaceThrows(data) THEN st
    ELSE LET bs == {data.books[i] : i \in DOMAIN data.books}
             ls == {data.logs[i] : i \in DOMAIN data.logs}
         IN [books |-> {NewBook(b, b.id) : b \in bs},
             logs |-> {[id |-> l.id, bookId |-> l.bookId, date |-> NewDate(l.date),
                        page |-> l.page] : l \in ls},
             nextBookId |-> NextKey(st.nextBookId, {b.id : b \in bs}),
             nextLogId |-> NextKey(st.nextLogId, {l.id : l \in ls})]

ReplaceImport(d, data) ==
    /\ merges < MaxMerges
    /\ merges' = merges + 1
    /\ store' = [store EXCEPT ![d] = ReplaceImportDB(@, data)]
    /\ hist' = [op |-> "importReplace", pre |-> store[d], snap |-> data,
                ok |-> ~ReplaceThrows(data)]
    /\ UNCHANGED <<clock, sync, relay, pair>>

ReplaceNext ==
    \/ \E k \in NaturalKeys, t \in Instants : HandleAddBook("host", k, t, MaxBooks)
    \/ \E b \in db.books, p \in PageInputs, t \in Instants :
          HandleAddLog("host", b, p, t, MaxLogs)
    \/ \E x \in Snapshots : ReplaceImport("host", x)

SpecReplace == Init /\ [][ReplaceNext]_vars

\* ------------------------------ the earlier importDB kept in db.ts
\* "Update dates if external is newer (simple heuristic)": lastReadDate and
\* status are overwritten together, startDate is not touched
EarlierUpdateBook(existingBook, extBook) ==
    IF NewDate(extBook.lastReadDate) > existingBook.lastReadDate
    THEN [existingBook EXCEPT !.lastReadDate = NewDate(extBook.lastReadDate),
                              !.status = extBook.status]
    ELSE existingBook

\* one iteration of the "MERGE BOOKS" loop
EarlierProcessBook(tx, extBook) ==
    LET matches == MatchingBooks(tx.books, extBook)
        existingBook == First(matches)
    IN IF matches # {}
       THEN [tx EXCEPT !.books = (@ \ {existingBook})
                                  \cup {EarlierUpdateBook(existingBook, extBook)}]
       ELSE [tx EXCEPT !.books = @ \cup {NewBook(extBook, tx.nextBookId)},
                       !.nextBookId = @ + 1]

RECURSIVE EarlierProcessBooks(_, _, _)
EarlierProcessBooks(tx, extBooks, i) ==
    IF i > Len(extBooks) THEN tx
    ELSE EarlierProcessBooks(EarlierProcessBook(tx, extBooks[i]), extBooks, i + 1)

\* importDB of this variant: merge the Books, build the id map from the
\* merged table, merge the Logs that are new by Book, page and instant
EarlierImportDB(st, data) ==
    LET tx1 == EarlierProcessBooks(BeginImport(st), data.books, 1)
        tx2 == [tx1 EXCEPT !.bookMap = StoredBookMap(<<>>, tx1.books, data.books, 1)]
        tx3 == StoredProcessLogs(tx2, data.logs, 1)
    IN Transaction(st, tx3)

EarlierImport(d, data) ==
    /\ merges < MaxMerges
    /\ merges' = merges + 1
    /\ store' = [store EXCEPT ![d] = EarlierImportDB(@, data)]
    /\ hist' = [op |-> "import", pre |-> store[d], snap |-> data, ok |-> TRUE]
    /\ UNCHANGED <<clock, sync, relay, pair>>

EarlierNext ==
    \/ \E k \in NaturalKeys, t \in Instants : HandleAddBook("host", k, t, MaxBooks)
    \/ \E b \in db.books, p \in PageInputs, t \in Instants :
          HandleAddLog("host", b, p, t, MaxLogs)
    \/ \E b \in db.books : HandleDeleteBook("host", b)
    \/ \E x \in BookSnapshots \cup LogSnapshots : EarlierImport("host", x)

SpecEarlier == Init /\ [][EarlierNext]_vars

\* ------------------------------------------------- the pairing machine
\* the snapshots behind a pairing code or a response: a good one and one on
\* which importDB throws
GoodResponse ==
    [books |-> <<ForeignBook(ForeignId1, <<"Dune", MaxPages>>, 0, MaxTime, "reading")>>,
     logs |-> <<ForeignLog(ForeignId1, 0, MaxPages)>>]
Responses ==
    {GoodResponse}
    \cup {[books |-> <<ForeignBook(ForeignId1, <<"Dune", MaxPages>>, 0, MaxTime, "reading"),
                       NullEntry>>,
           logs |-> <<>>]}

Modals == DOMAIN pair
\* React state dies with the instance: its setters do nothing once it is
\* unmounted, while its refs and its pending calls live on
Unmounted(rec) ==
    [rec EXCEPT !.mode = "host", !.step = "idle", !.syncStats = <<>>,
                !.isFullyComplete = FALSE, !.left = [r \in Rooms |-> FALSE]]
\* the state setters and refs of instance m
Set(m, rec) == pair' = [pair EXCEPT ![m] = IF rec.open THEN rec ELSE Unmounted(rec)]
RemoveAt(s, i) == [j \in 1..(Len(s) - 1) |-> IF j < i THEN s[j] ELSE s[j + 1]]

\* pollForResponse(room) up to its fetch: it returns at once when
\* stopPollingRef is set, and issues the long poll otherwise
PollStart(stop) == IF stop THEN "none" ELSE "inflight"

\* the rooms whose ready view is left when step changes from ready
LeaveReady(rec) ==
    IF rec.step = "ready" THEN [r \in Rooms |-> rec.left[r] \/ r <= rec.rooms] ELSE rec.left

RECURSIVE JoinsStarted(_)
\* the startJoining calls that the instances m and after have run
JoinsStarted(m) ==
    IF m > Len(pair) THEN 0 ELSE pair[m].joins + JoinsStarted(m + 1)

RECURSIVE RoomsUsed(_)
\* the rooms generated or being generated by the instances m and after
RoomsUsed(m) ==
    IF m > Len(pair) THEN 0 ELSE pair[m].rooms + pair[m].hosting + RoomsUsed(m + 1)

\* "Generate Sync Codes": startHosting() up to its first await
StartHosting(m) ==
    /\ pair[m].open /\ pair[m].step = "idle" /\ pair[m].mode = "host"
    /\ RoomsUsed(1) < MaxRooms
    /\ Set(m, [pair[m] EXCEPT !.step = "preparing",
                              !.stopPollingRef = FALSE, !.hosting = @ + 1])
    /\ UNCHANGED <<store, clock, hist, merges, sync, relay>>

\* startHosting after exportDB, encryptData and the upload: step ready and the
\* first pollForResponse(newRoomId)
HostingReady(m) ==
    /\ pair[m].hosting > 0
    /\ LET room == pair[m].rooms + 1
       IN Set(m, [pair[m] EXCEPT !.hosting = @ - 1, !.rooms = room,
                                 !.step = "ready",
                                 !.left = [LeaveReady(pair[m]) EXCEPT ![room] = FALSE],
                                 !.poll[room] = PollStart(pair[m].stopPollingRef)])
    /\ UNCHANGED <<store, clock, hist, merges, sync, relay>>

\* startHosting's catch: the upload was refused or the network failed
HostingFailed(m) ==
    /\ pair[m].hosting > 0
    /\ Set(m, [pair[m] EXCEPT !.hosting = @ - 1, !.step = "error",
                              !.left = LeaveReady(pair[m])])
    /\ UNCHANGED <<store, clock, hist, merges, sync, relay>>

\* the other device's sendResponseBack: its sealed snapshot is uploaded and
\* "<id>|<pin>" is published on the room's topic
JoinerResponds(m, room, data) ==
    /\ room <= pair[m].rooms
    /\ pair[m].topic[room] = <<>>
    /\ Set(m, [pair[m] EXCEPT !.topic[room] = <<data>>])
    /\ UNCHANGED <<store, clock, hist, merges, sync, relay>>

\* a call that no stopped or left poll made
NotLate == [closed |-> FALSE, left |-> FALSE]

\* mutant: startJoining without the joinInProgress test
JoinGuardOff(rec) == FALSE

\* startJoining's "|| joinInProgress.current" (the code and the PIN are well formed)
JoinGuard(rec) == rec.joinInProgress

\* startJoining(targetId, targetPin, isResponse, targetRoomId) up to its first
\* await: return at once, or set the ref, the step and the message.  late
\* records whether the poll that calls it was stopped or its ready view left.
StartJoining(rec, blob, isResponse, hasRoom, late) ==
    IF JoinGuard(rec) THEN rec
    ELSE [rec EXCEPT !.joinInProgress = TRUE,
                     !.joins = @ + 1,
                     !.step = IF isResponse THEN "merging" ELSE "joining",
                     !.left = LeaveReady(rec),
                     !.calls = Append(@, [pc |-> "download", blob |-> blob,
                                          isResponse |-> isResponse,
                                          hasRoom |-> hasRoom, late |-> late])]

\* the long poll returns a message line: startJoining(respId, respPin, true) is
\* awaited and the loop returns
PollReceives(m, room) ==
    /\ pair[m].poll[room] = "inflight"
    /\ pair[m].topic[room] # <<>>
    /\ Len(pair[m].calls) < MaxCalls /\ JoinsStarted(1) < MaxJoins
    /\ LET rec == StartJoining(pair[m], pair[m].topic[room][1], TRUE, FALSE,
                               [closed |-> pair[m].stopPollingRef,
                                left |-> pair[m].left[room]])
       IN Set(m, [rec EXCEPT !.poll[room] = "none",
                             !.left[room] = pair[m].left[room]])
    /\ UNCHANGED <<store, clock, hist, merges, sync, relay>>

\* mutant: a poll loop that ends with the first poll that brings no message
PollTimesOutAndStops(m, room) ==
    /\ pair[m].poll[room] = "inflight"
    /\ Set(m, [pair[m] EXCEPT !.poll[room] = "none"])
    /\ UNCHANGED <<store, clock, hist, merges, sync, relay>>

\* the long poll returns without a message, or throws: the next poll is
\* scheduled with setTimeout unless stopPollingRef is set (the isFullyComplete
\* the loop reads is the one captured when hosting started in step idle: false)
PollTimesOut(m, room) ==
    /\ pair[m].poll[room] = "inflight"
    /\ Set(m, [pair[m] EXCEPT !.poll[room] =
                                 IF pair[m].stopPollingRef THEN "none" ELSE "timer"])
    /\ UNCHANGED <<store, clock, hist, merges, sync, relay>>

\* the timer fires: pollForResponse(room) again
PollTimer(m, room) ==
    /\ pair[m].poll[room] = "timer"
    /\ Set(m, [pair[m] EXCEPT !.poll[room] = PollStart(pair[m].stopPollingRef)])
    /\ UNCHANGED <<store, clock, hist, merges, sync, relay>>


\* "Connect & Sync" on the manual form of the idle view, with a code that
\* carries a return-channel room or not
ManualJoin(m, blob, hasRoom) ==
    /\ pair[m].open /\ pair[m].step = "idle" /\ pair[m].mode = "join"
    /\ Len(pair[m].calls) < MaxCalls /\ JoinsStarted(1) < MaxJoins
    /\ Set(m, StartJoining(pair[m], blob, FALSE, hasRoom, NotLate))
    /\ UNCHANGED <<store, clock, hist, merges, sync, relay>>

\* "Scan QR Code": startScanner
StartScanner(m) ==
    /\ pair[m].open /\ pair[m].step = "idle" /\ pair[m].mode = "join"
    /\ ~pair[m].scanner
    /\ Set(m, [pair[m] EXCEPT !.scanner = TRUE])
    /\ UNCHANGED <<store, clock, hist, merges, sync, relay>>

\* the scanner's success callback: stopScanner(); startJoining(id, p, false, rid)
ScanDecoded(m, blob, hasRoom) ==
    /\ pair[m].scanner
    /\ Len(pair[m].calls) < MaxCalls /\ JoinsStarted(1) < MaxJoins
    /\ Set(m, [StartJoining(pair[m], blob, FALSE, hasRoom, NotLate)
                  EXCEPT !.scanner = FALSE])
    /\ UNCHANGED <<store, clock, hist, merges, sync, relay>>

\* "Stop Camera": stopScanner
StopScanner(m) ==
    /\ pair[m].open /\ pair[m].step = "idle" /\ pair[m].mode = "join"
    /\ pair[m].scanner
    /\ Set(m, [pair[m] EXCEPT !.scanner = FALSE])
    /\ UNCHANGED <<store, clock, hist, merges, sync, relay>>

\* mutant: the error path leaves joinInProgress set
JoinFailsKeepsGuard(rec, i) ==
    [rec EXCEPT !.step = "error", !.left = LeaveReady(rec), !.calls = RemoveAt(@, i)]

\* startJoining's catch and finally for call i: step error (with its message),
\* joinInProgress released
JoinFails(rec, i) ==
    [rec EXCEPT !.step = "error", !.joinInProgress = FALSE,
                !.left = LeaveReady(rec), !.calls = RemoveAt(@, i)]

\* startJoining's download: the blob arrives, or the fetch fails / is not found
JoinDownload(m, i, ok) ==
    /\ i \in DOMAIN pair[m].calls
    /\ pair[m].calls[i].pc = "download"
    /\ Set(m, IF ok THEN [pair[m] EXCEPT !.calls[i].pc = "decrypt"]
                    ELSE JoinFails(pair[m], i))
    /\ UNCHANGED <<store, clock, hist, merges, sync, relay>>

\* startJoining's decryptData: the payload opens, or INVALID_PIN
JoinDecrypt(m, i, ok) ==
    /\ i \in DOMAIN pair[m].calls
    /\ pair[m].calls[i].pc = "decrypt"
    /\ Set(m, IF ok THEN [pair[m] EXCEPT !.calls[i].pc = "import"]
                    ELSE JoinFails(pair[m], i))
    /\ UNCHANGED <<store, clock, hist, merges, sync, relay>>

\* mutant: full completion declared before the response is sent back
JoinMergedCompleteAtOnce(rec, i, stats) ==
    [rec EXCEPT !.syncStats = stats, !.step = "success", !.left = LeaveReady(rec),
                !.isFullyComplete = TRUE,
                !.calls[i].pc = IF rec.calls[i].isResponse \/ ~rec.calls[i].hasRoom
                                THEN "done" ELSE "send"]

\* what startJoining does once importDB returned stats: setSyncStats, step
\* success, and full completion, or the call of sendResponseBack
JoinMerged(rec, i, stats) ==
    LET call == rec.calls[i]
        shown == [rec EXCEPT !.syncStats = stats, !.step = "success",
                             !.left = LeaveReady(rec)]
    IN IF call.isResponse
       THEN [shown EXCEPT !.isFullyComplete = TRUE,
                          !.joinInProgress = FALSE, !.calls = RemoveAt(@, i)]
       ELSE IF call.hasRoom
       THEN [shown EXCEPT !.calls[i].pc = "send"]
       ELSE [shown EXCEPT !.isFullyComplete = TRUE,
                          !.joinInProgress = FALSE, !.calls = RemoveAt(@, i)]

\* startJoining's importDB(rawData) and what follows it up to the next await
JoinImport(m, i) ==
    /\ i \in DOMAIN pair[m].calls
    /\ pair[m].calls[i].pc = "import"
    /\ LET call == pair[m].calls[i]
           r == ImportDB(store["host"], call.blob)
       IN /\ store' = [store EXCEPT !["host"] = r.store]
          /\ hist' = [op |-> "import", pre |-> store["host"], snap |-> call.blob,
                      ok |-> r.ok, booksImported |-> r.booksImported,
                      logsImported |-> r.logsImported, late |-> call.late.closed,
                      left |-> call.late.left]
          /\ Set(m, IF r.ok
                    THEN JoinMerged(pair[m], i, <<r.booksImported, r.logsImported>>)
                    ELSE JoinFails(pair[m], i))
    /\ UNCHANGED <<clock, merges, sync, relay>>

\* sendResponseBack ends: the snapshot was exported, sealed, uploaded and
\* signalled, or a request failed and the catch logged it; its finally sets
\* isFullyComplete, and startJoining's finally releases joinInProgress
JoinSend(m, i, ok) ==
    /\ i \in DOMAIN pair[m].calls
    /\ pair[m].calls[i].pc = "send"
    /\ Set(m, [pair[m] EXCEPT !.isFullyComplete = TRUE,
                              !.joinInProgress = FALSE, !.calls = RemoveAt(@, i)])
    /\ relay' = IF ok THEN [response |-> ExportDB(store["host"])] ELSE relay
    /\ UNCHANGED <<store, clock, hist, merges, sync>>

\* the close button, and the unmount cleanup: stopPollingRef.current = true;
\* stopScanner(); onClose()
CloseModal(m) ==
    /\ pair[m].open
    /\ Set(m, [pair[m] EXCEPT !.stopPollingRef = TRUE, !.open = FALSE,
                              !.scanner = FALSE])
    /\ UNCHANGED <<store, clock, hist, merges, sync, relay>>

\* the sync button of the app: a new SyncModal instance is mounted
OpenModal ==
    /\ Len(pair) < MaxModals
    /\ \A m \in Modals : ~pair[m].open
    /\ pair' = Append(pair, PairInit)
    /\ UNCHANGED <<store, clock, hist, merges, sync, relay>>

\* a tab button: setMode(mode); setStep('idle'); setIsFullyComplete(false)
SelectTab(m, mode) ==
    /\ pair[m].open
    /\ Set(m, [pair[m] EXCEPT !.mode = mode, !.step = "idle", !.isFullyComplete = FALSE,
                              !.left = LeaveReady(pair[m])])
    /\ UNCHANGED <<store, clock, hist, merges, sync, relay>>

\* Go Back on the error view: setStep('idle'); setIsFullyComplete(false)
GoBack(m) ==
    /\ pair[m].open
    /\ pair[m].step = "error"
    /\ Set(m, [pair[m] EXCEPT !.step = "idle", !.isFullyComplete = FALSE])
    /\ UNCHANGED <<store, clock, hist, merges, sync, relay>>

PairNext ==
    \/ \E m \in Modals : StartHosting(m)
    \/ \E m \in Modals : HostingReady(m)
    \/ \E m \in Modals : HostingFailed(m)
    \/ \E m \in Modals, r \in Rooms : JoinerResponds(m, r, GoodResponse)
    \/ \E m \in Modals, r \in Rooms : PollReceives(m, r)
    \/ \E m \in Modals, r \in Rooms : PollTimesOut(m, r)
    \/ \E m \in Modals, r \in Rooms : PollTimer(m, r)
    \/ \E m \in Modals, x \in Responses, hasRoom \in BOOLEAN : ManualJoin(m, x, hasRoom)
    \/ \E m \in Modals : StartScanner(m)
    \/ \E m \in Modals, x \in Responses : ScanDecoded(m, x, TRUE)
    \/ \E m \in Modals : StopScanner(m)
    \/ \E m \in Modals, i \in 1..MaxCalls, ok \in BOOLEAN : JoinDownload(m, i, ok)
    \/ \E m \in Modals, i \in 1..MaxCalls, ok \in BOOLEAN : JoinDecrypt(m, i, ok)
    \/ \E m \in Modals, i \in 1..MaxCalls : JoinImport(m, i)
    \/ \E m \in Modals, i \in 1..MaxCalls, ok \in BOOLEAN : JoinSend(m, i, ok)
    \/ \E m \in Modals : CloseModal(m)
    \/ OpenModal
    \/ \E m \in Modals, mode \in {"host", "join"} : SelectTab(m, mode)
    \/ \E m \in Modals : GoBack(m)

SpecPair == Init /\ [][PairNext]_vars

\* one SyncModal instance from its mount to its close, hosting HostSessions
\* sessions: the host side, with the manual form of the join tab
HostNext ==
    \/ pair[1].rooms + pair[1].hosting < HostSessions /\ StartHosting(1)
    \/ HostingReady(1)
    \/ HostingFailed(1)
    \/ \E r \in Rooms : JoinerResponds(1, r, GoodResponse)
    \/ \E r \in Rooms : PollReceives(1, r)
    \/ \E r \in Rooms : PollTimesOut(1, r)
    \/ \E r \in Rooms : PollTimer(1, r)
    \/ \E x \in Responses, hasRoom \in BOOLEAN : ManualJoin(1, x, hasRoom)
    \/ \E ok \in BOOLEAN : JoinDownload(1, 1, ok)
    \/ \E ok \in BOOLEAN : JoinDecrypt(1, 1, ok)
    \/ JoinImport(1, 1)
    \/ \E ok \in BOOLEAN : JoinSend(1, 1, ok)
    \/ CloseModal(1)
    \/ \E mode \in {"host", "join"} : SelectTab(1, mode)
    \/ GoBack(1)

\* what the browser and the network owe the instance: a poll that is issued
\* again and again gets its message line in the end, a timer fires, and each
\* awaited step of a startJoining call returns or throws
HostFairness ==
    /\ \A r \in Rooms : SF_vars(PollReceives(1, r)) /\ WF_vars(PollTimer(1, r))
    /\ WF_vars(\E ok \in BOOLEAN : JoinDownload(1, 1, ok))
    /\ WF_vars(\E ok \in BOOLEAN : JoinDecrypt(1, 1, ok))
    /\ WF_vars(JoinImport(1, 1))

SpecHostFair == Init /\ [][HostNext]_vars /\ HostFairness

\* ------------------------------------------------------------ the seal
\* A string is the sequence of its UTF-16 code units, a byte array a sequence
\* of numbers below 256.  A call returns [ok |-> TRUE, value |-> v] or throws:
\* [ok |-> FALSE, error |-> name].
Returns(v) == [ok |-> TRUE, value |-> v]
Throws(name) == [ok |-> FALSE, error |-> name]

IsHighSurrogate(c) == c >= 55296 /\ c <= 56319
IsLowSurrogate(c) == c >= 56320 /\ c <= 57343
CodePoint(high, low) == 65536 + (high - 55296) * 1024 + (low - 56320)
\* the UTF-8 bytes of one code point
Utf8Bytes(cp) ==
    IF cp < 128 THEN <<cp>>
    ELSE IF cp < 2048 THEN <<192 + (cp \div 64), 128 + (cp % 64)>>
    ELSE IF cp < 65536
    THEN <<224 + (cp \div 4096), 128 + ((cp \div 64) % 64), 128 + (cp % 64)>>
    ELSE <<240 + (cp \div 262144), 128 + ((cp \div 4096) % 64),
           128 + ((cp \div 64) % 64), 128 + (cp % 64)>>

RECURSIVE EncodeFrom(_, _)
EncodeFrom(s, i) ==
    IF i > Len(s) THEN <<>>
    ELSE IF IsHighSurrogate(s[i]) /\ i < Len(s) /\ IsLowSurrogate(s[i + 1])
    THEN Utf8Bytes(CodePoint(s[i], s[i + 1])) \o EncodeFrom(s, i + 2)
    ELSE IF IsHighSurrogate(s[i]) \/ IsLowSurrogate(s[i])
    THEN Utf8Bytes(65533) \o EncodeFrom(s, i + 1)       \* a lone surrogate: U+FFFD
    ELSE Utf8Bytes(s[i]) \o EncodeFrom(s, i + 1)
\* new TextEncoder().encode(s)
TextEncode(s) == EncodeFrom(s, 1)

\* the continuation bytes a lead byte asks for (0: no lead byte)
Continuations(lead) ==
    IF lead >= 194 /\ lead <= 223 THEN 1
    ELSE IF lead >= 224 /\ lead <= 239 THEN 2
    ELSE IF lead >= 240 /\ lead <= 244 THEN 3
    ELSE 0
\* the range of the k-th continuation byte after a lead byte
ContinuationOk(lead, k, b) ==
    LET low == IF k = 1 /\ lead = 224 THEN 160 ELSE IF k = 1 /\ lead = 240 THEN 144 ELSE 128
        high == IF k = 1 /\ lead = 237 THEN 159 ELSE IF k = 1 /\ lead = 244 THEN 143 ELSE 191
    IN b >= low /\ b <= high
RECURSIVE GoodContinuations(_, _, _, _)
\* how many of the continuation bytes after the lead byte at i are there
GoodContinuations(b, i, k, need) ==
    IF k > need \/ i + k > Len(b) \/ ~ContinuationOk(b[i], k, b[i + k]) THEN k - 1
    ELSE GoodContinuations(b, i, k + 1, need)
RECURSIVE ScalarValue(_, _, _, _, _)
ScalarValue(b, i, k, need, v) ==
    IF k > need THEN v ELSE ScalarValue(b, i, k + 1, need, v * 64 + (b[i + k] - 128))
\* the code units of one code point
CodeUnits(cp) ==
    IF cp < 65536 THEN <<cp>>
    ELSE <<55296 + ((cp - 65536) \div 1024), 56320 + ((cp - 65536) % 1024)>>
RECURSIVE DecodeFrom(_, _)
DecodeFrom(b, i) ==
    IF i > Len(b) THEN <<>>
    ELSE IF b[i] < 128 THEN <<b[i]>> \o DecodeFrom(b, i + 1)
    ELSE LET need == Continuations(b[i])
             got == GoodContinuations(b, i, 1, need)
             first == IF need = 1 THEN b[i] - 192 ELSE IF need = 2 THEN b[i] - 224
                      ELSE b[i] - 240
         IN IF need > 0 /\ got = need
            THEN CodeUnits(ScalarValue(b, i, 1, need, first)) \o DecodeFrom(b, i + need + 1)
            ELSE <<65533>> \o DecodeFrom(b, i + got + 1)
\* new TextDecoder().decode(bytes): not fatal, a leading byte order mark is dropped
TextDecode(b) ==
    IF Len(b) >= 3 /\ b[1] = 239 /\ b[2] = 187 /\ b[3] = 191 THEN DecodeFrom(b, 4)
    ELSE DecodeFrom(b, 1)

\* the base64 alphabet: A-Z a-z 0-9 + /
Base64Char(v) ==
    IF v < 26 THEN 65 + v
    ELSE IF v < 52 THEN 97 + (v - 26)
    ELSE IF v < 62 THEN 48 + (v - 52)
    ELSE IF v = 62 THEN 43 ELSE 47
Base64Value(c) ==
    IF c >= 65 /\ c <= 90 THEN c - 65
    ELSE IF c >= 97 /\ c <= 122 THEN c - 97 + 26
    ELSE IF c >= 48 /\ c <= 57 THEN c - 48 + 52
    ELSE IF c = 43 THEN 62
    ELSE IF c = 47 THEN 63
    ELSE -1
RECURSIVE BtoaFrom(_, _)
BtoaFrom(b, i) ==
    LET left == Len(b) - i + 1
    IN IF left <= 0 THEN <<>>
       ELSE IF left = 1
       THEN <<Base64Char(b[i] \div 4), Base64Char((b[i] % 4) * 16), 61, 61>>
       ELSE IF left = 2
       THEN <<Base64Char(b[i] \div 4), Base64Char((b[i] % 4) * 16 + (b[i + 1] \div 16)),
              Base64Char((b[i + 1] % 16) * 4), 61>>
       ELSE <<Base64Char(b[i] \div 4), Base64Char((b[i] % 4) * 16 + (b[i + 1] \div 16)),
              Base64Char((b[i + 1] % 16) * 4 + (b[i + 2] \div 64)),
              Base64Char(b[i + 2] % 64)>> \o BtoaFrom(b, i + 3)
\* btoa(String.fromCharCode(...bytes)): every byte is one character below 256
Btoa(b) == BtoaFrom(b, 1)

RECURSIVE AtobFrom(_, _)
AtobFrom(s, i) ==
    LET left == Len(s) - i + 1
        v(k) == Base64Value(s[i + k])
    IN IF left <= 1 THEN <<>>
       ELSE IF left = 2 THEN <<v(0) * 4 + (v(1) \div 16)>>
       ELSE IF left = 3
       THEN <<v(0) * 4 + (v(1) \div 16), (v(1) % 16) * 16 + (v(2) \div 4)>>
       ELSE <<v(0) * 4 + (v(1) \div 16), (v(1) % 16) * 16 + (v(2) \div 4),
              (v(2) % 4) * 64 + v(3)>> \o AtobFrom(s, i + 4)
\* atob(s): the padding of a whole number of groups is dropped; a length of
\* 4k + 1 or a character outside the alphabet throws
Atob(s) ==
    LET n == Len(s)
        pad == IF n > 0 /\ n % 4 = 0 /\ s[n] = 61
               THEN (IF s[n - 1] = 61 THEN 2 ELSE 1) ELSE 0
        body == SubSeq(s, 1, n - pad)
    IN IF Len(body) % 4 = 1 \/ \E i \in DOMAIN body : Base64Value(body[i]) < 0
       THEN Throws("InvalidCharacterError")
       ELSE Returns(AtobFrom(body, 1))

\* bytes.slice(from, to)
Slice(b, from, to) == SubSeq(b, from + 1, IF to < Len(b) THEN to ELSE Len(b))
RECURSIVE WeightedSum(_, _)
WeightedSum(b, i) == IF i > Len(b) THEN 0 ELSE i * b[i] + WeightedSum(b, i + 1)

\* crypto.subtle.deriveKey with PBKDF2: the key is a function of the PIN bytes
\* and the salt
DeriveKey(encodedPin, salt) == [pin |-> encodedPin, salt |-> salt]
\* AES-GCM as an authenticated cipher: a key stream added to the plaintext, and
\* a 16-byte tag that depends on the key, the iv and the ciphertext
KeyStream(key, iv, i) ==
    (WeightedSum(key.pin, 1) + WeightedSum(key.salt, 1) + WeightedSum(iv, 1) + i) % 256
AuthTag(key, iv, ct) ==
    [j \in 1..16 |->
        ((IF j <= Len(key.pin) THEN key.pin[j] ELSE 0) + Len(key.pin)
         + WeightedSum(key.salt, 1) + Len(key.salt)
         + WeightedSum(iv, 1) + Len(iv) + WeightedSum(ct, 1) + Len(ct) + j) % 256]
\* crypto.subtle.encrypt({name: "AES-GCM", iv}, key, data): ciphertext and tag
AesGcmEncrypt(key, iv, data) ==
    LET ct == [i \in 1..Len(data) |-> (data[i] + KeyStream(key, iv, i)) % 256]
    IN ct \o AuthTag(key, iv, ct)
\* crypto.subtle.decrypt: OperationError unless the tag is the one encrypt made
AesGcmDecrypt(key, iv, encrypted) ==
    IF Len(iv) = 0 \/ Len(encrypted) < 16 THEN Throws("OperationError")
    ELSE LET ct == SubSeq(encrypted, 1, Len(encrypted) - 16)
             tag == SubSeq(encrypted, Len(encrypted) - 15, Len(encrypted))
         IN IF tag # AuthTag(key, iv, ct) THEN Throws("OperationError")
            ELSE Returns([i \in 1..Len(ct) |-> (ct[i] + 256 - KeyStream(key, iv, i)) % 256])

\* encryptData(data, pin), with the salt and the iv crypto.getRandomValues
\* drew: salt, iv and ciphertext are joined and spread into the arguments of
\* one String.fromCharCode call, which throws a RangeError when there are more
\* of them than the engine takes
EncryptData(data, pin, salt, iv) ==
    LET key == DeriveKey(TextEncode(pin), salt)
        combined == salt \o iv \o AesGcmEncrypt(key, iv, TextEncode(data))
    IN IF Len(combined) > MaxArguments THEN Throws("RangeError")
       ELSE Returns(Btoa(combined))

\* mutant: the error of atob leaves decryptData as it is
DecryptDataAtobUncaught(base64Data, pin) ==
    LET a == Atob(base64Data)
    IN IF ~a.ok THEN a
       ELSE LET d == AesGcmDecrypt(DeriveKey(TextEncode(pin), Slice(a.value, 0, 16)),
                                   Slice(a.value, 16, 28), Slice(a.value, 28, Len(a.value)))
            IN IF ~d.ok THEN Throws("INVALID_PIN") ELSE Returns(TextDecode(d.value))

\* decryptData(base64Data, pin): whatever is thrown inside is caught and
\* INVALID_PIN is thrown instead
DecryptData(base64Data, pin) ==
    LET a == Atob(base64Data)
    IN IF ~a.ok THEN Throws("INVALID_PIN")
       ELSE LET combined == a.value
                salt == Slice(combined, 0, 16)
                iv == Slice(combined, 16, 28)
                encrypted == Slice(combined, 28, Len(combined))
                key == DeriveKey(TextEncode(pin), salt)
                d == AesGcmDecrypt(key, iv, encrypted)
            IN IF ~d.ok THEN Throws("INVALID_PIN") ELSE Returns(TextDecode(d.value))

\* s.includes(sub)
Includes(s, sub) ==
    \E i \in 0..(Len(s) - Len(sub)) : SubSeq(s, i + 1, i + Len(sub)) = sub
NotFoundText == <<110, 111, 116, 32, 102, 111, 117, 110, 100>>     \* "not found"
Text404 == <<52, 48, 52>>                                           \* "404"

\* startJoining's try block up to decryptData, for the answer res of the
\* download: the text it returns or the error it throws
DownloadAndOpen(res, targetPin) ==
    IF res.rejected THEN Throws("TypeError")             \* fetch itself failed
    ELSE IF ~res.ok THEN Throws("DOWNLOAD_ERROR")
    ELSE IF Len(res.text) < 50
    THEN (IF Includes(res.text, NotFoundText) \/ Includes(res.text, Text404)
          THEN Throws("NOT_FOUND") ELSE Throws("EMPTY_PACKAGE"))
    ELSE DecryptData(res.text, targetPin)

\* mutant: a message of its own for NOT_FOUND
SurfaceNotFound(e) ==
    [step |-> "error",
     msg |-> IF e.error = "INVALID_PIN" THEN "Incorrect Passcode."
             ELSE IF e.error = "NOT_FOUND" THEN "Not found."
             ELSE "Sync failed. Please try again."]

\* startJoining's catch: the step and the message the user is shown
Surface(e) ==
    [step |-> "error",
     msg |-> IF e.error = "INVALID_PIN" THEN "Incorrect Passcode."
             ELSE "Sync failed. Please try again."]

\* the payloads: a JSON text "{...}" whose body has up to MaxText code units,
\* one, two or four bytes long in UTF-8 (A, e-acute, and a surrogate pair)
RECURSIVE TextsOfLength(_)
TextsOfLength(n) ==
    IF n = 0 THEN {<<>>}
    ELSE {<<65>> \o s : s \in TextsOfLength(n - 1)}
         \cup {<<233>> \o s : s \in TextsOfLength(n - 1)}
         \cup (IF n >= 2 THEN {<<55357, 56832>> \o s : s \in TextsOfLength(n - 2)} ELSE {})
Payloads == {<<123>> \o s \o <<125>> : s \in UNION {TextsOfLength(n) : n \in 0..MaxText}}
\* the passcodes: "1234", "1235" and "12345"
Pins == {<<49, 50, 51, 52>>, <<49, 50, 51, 53>>, <<49, 50, 51, 52, 53>>}
\* what crypto.getRandomValues may draw for an array of n bytes
RandomValues(n) == {[i \in 1..n |-> v] : v \in {7, 200}}

\* the answers of the download for a blob stored under a handle: the blob,
\* the blob cut short, the blob with one character changed
CutLengths == {0, 49, 50, 57, 58}
ChangedAt == {1, 25, 40}
BlobAnswers(blob) ==
    {[kind |-> "intact", rejected |-> FALSE, ok |-> TRUE, text |-> blob]}
    \cup {[kind |-> "truncated", rejected |-> FALSE, ok |-> TRUE, text |-> SubSeq(blob, 1, k)] :
            k \in CutLengths}
    \cup {[kind |-> "corrupted", rejected |-> FALSE, ok |-> TRUE,
           text |-> [blob EXCEPT ![p] = IF bad THEN 33
                                        ELSE Base64Char((Base64Value(blob[p]) + 1) % 64)]] :
            p \in ChangedAt, bad \in BOOLEAN}
\* the answers for an unknown or expired handle: a status that is not 2xx, or
\* a 2xx answer with a short notice or with an error page; and the transport
\* failures: a server error, a request that does not complete
ErrorPage == [i \in 1..50 |-> IF i = 1 THEN 60 ELSE 52]
UnknownHandleAnswers ==
    {[kind |-> "unknown", rejected |-> FALSE, ok |-> FALSE, text |-> <<>>],
     [kind |-> "unknown", rejected |-> FALSE, ok |-> TRUE, text |-> NotFoundText],
     [kind |-> "unknown", rejected |-> FALSE, ok |-> TRUE, text |-> ErrorPage]}
TransportAnswers ==
    {[kind |-> "transport", rejected |-> FALSE, ok |-> FALSE, text |-> <<>>],
     [kind |-> "transport", rejected |-> TRUE, ok |-> FALSE, text |-> <<>>],
     [kind |-> "transport", rejected |-> FALSE, ok |-> TRUE, text |-> <<>>]}

\* a device seals a payload under a PIN
SealInit ==
    /\ store = [d \in Devices |-> EmptyStore]
    /\ clock = [d \in Devices |-> 0]
    /\ merges = 0
    /\ sync = "idle"
    /\ relay = <<>>
    /\ pair = <<PairInit>>
    /\ \E data \in Payloads, pin \in Pins : hist = [op |-> "payload", data |-> data, pin |-> pin]

\* encryptData(rawData, newPin)
Seal(salt, iv) ==
    /\ hist.op = "payload"
    /\ hist' = [op |-> "sealed", data |-> hist.data, pin |-> hist.pin,
                sealed |-> EncryptData(hist.data, hist.pin, salt, iv)]
    /\ UNCHANGED <<store, clock, merges, sync, relay, pair>>

\* mutant: the snapshot itself is put in the upload
UploadBodyPlain(rawData, encrypted) == rawData
\* the file startHosting and sendResponseBack put in the upload request:
\* new Blob([encrypted])
UploadBody(rawData, encrypted) == encrypted

\* the upload request is issued (when encryptData threw, the catch is reached
\* and nothing is uploaded)
Upload ==
    /\ hist.op = "sealed" /\ hist.sealed.ok
    /\ hist' = [op |-> "uploaded", data |-> hist.data, pin |-> hist.pin,
                body |-> UploadBody(hist.data, hist.sealed.value)]
    /\ UNCHANGED <<store, clock, merges, sync, relay, pair>>

\* the other device's download is answered
Download(res) ==
    /\ hist' = [op |-> "downloaded", data |-> hist.data, pin |-> hist.pin, res |-> res]
    /\ UNCHANGED <<store, clock, merges, sync, relay, pair>>
DownloadBlob ==
    /\ hist.op = "uploaded"
    /\ \E res \in BlobAnswers(hist.body) : Download(res)
DownloadFails ==
    /\ hist.op = "uploaded"
    /\ \E res \in UnknownHandleAnswers \cup TransportAnswers : Download(res)

\* startJoining with the PIN the user gave: the download is opened, or the
\* catch shows the error
Open(targetPin) ==
    /\ hist.op = "downloaded"
    /\ LET out == DownloadAndOpen(hist.res, targetPin)
       IN hist' = [op |-> "opened", data |-> hist.data, pin |-> hist.pin, res |-> hist.res,
                   targetPin |-> targetPin, out |-> out,
                   shown |-> IF out.ok THEN [step |-> "merging", msg |-> ""]
                             ELSE Surface(out)]
    /\ UNCHANGED <<store, clock, merges, sync, relay, pair>>

SealNext ==
    \/ \E salt \in RandomValues(16), iv \in RandomValues(12) : Seal(salt, iv)
    \/ Upload
    \/ DownloadBlob
    \/ DownloadFails
    \/ \E p \in Pins : Open(p)

SpecSeal == SealInit /\ [][SealNext]_vars

\* ------------------------------------------------- a join that is retried
\* The joiner's modal against the blob relay.  The relay keeps the sealed
\* snapshot under its handle until it expires; a single-use relay serves it to
\* one download only, another serves it to every download until then.
RelayPolicies == {"single-use", "repeated"}
\* the PINs startHosting generates have four digits
HostPins == {p \in Pins : Len(p) = 4}
\* the relay serves the blob to the next download
Served == ~relay.expired /\ (relay.policy = "repeated" \/ relay.gets = 0)

\* the host sealed a snapshot (its JSON text data) under its PIN and uploaded it
RetryInit ==
    /\ store = [d \in Devices |-> EmptyStore]
    /\ clock = [d \in Devices |-> 0]
    /\ merges = 0
    /\ sync = "idle"
    /\ pair = <<PairInit>>
    /\ \E data \in Payloads, pin \in HostPins, policy \in RelayPolicies,
          salt \in RandomValues(16), iv \in RandomValues(12) :
          LET sealed == EncryptData(data, pin, salt, iv)
          IN /\ sealed.ok
             /\ relay = [body |-> UploadBody(data, sealed.value), policy |-> policy,
                         gets |-> 0, expired |-> FALSE]
             /\ hist = [op |-> "retry", data |-> data, snap |-> GoodResponse, pin |-> pin,
                        targetPin |-> <<>>, res |-> <<>>, inTime |-> TRUE, text |-> <<>>,
                        tries |-> <<>>]

\* "Connect & Sync" with the handle and the typed PIN: startJoining(inputKey, inputPin)
RetryConnect(targetPin) ==
    /\ hist.op = "retry"
    /\ pair[1].open /\ pair[1].step = "idle" /\ pair[1].mode = "join"
    /\ pair[1].joins < MaxJoins
    /\ Set(1, StartJoining(pair[1], hist.snap, FALSE, FALSE, NotLate))
    /\ hist' = [hist EXCEPT !.targetPin = targetPin]
    /\ UNCHANGED <<store, clock, merges, sync, relay>>

\* startJoining's fetch of the handle is answered by the relay
RetryDownload ==
    /\ pair[1].calls # <<>> /\ pair[1].calls[1].pc = "download"
    /\ \E res \in IF Served
                  THEN {[kind |-> "intact", rejected |-> FALSE, ok |-> TRUE,
                         text |-> relay.body]}
                  ELSE UnknownHandleAnswers :
          hist' = [hist EXCEPT !.res = res, !.inTime = ~relay.expired]
    /\ relay' = IF Served THEN [relay EXCEPT !.gets = @ + 1] ELSE relay
    /\ Set(1, [pair[1] EXCEPT !.calls[1].pc = "decrypt"])
    /\ UNCHANGED <<store, clock, merges, sync>>

\* the checks on the answer and decryptData: the text, or the catch and finally
RetryOpen ==
    /\ pair[1].calls # <<>> /\ pair[1].calls[1].pc = "decrypt"
    /\ LET out == DownloadAndOpen(hist.res, hist.targetPin)
       IN IF out.ok
          THEN /\ Set(1, [pair[1] EXCEPT !.calls[1].pc = "import"])
               /\ hist' = [hist EXCEPT !.text = out.value]
          ELSE /\ Set(1, JoinFails(pair[1], 1))
               /\ hist' = [hist EXCEPT !.tries =
                             Append(@, [targetPin |-> hist.targetPin, kind |-> hist.res.kind,
                                        inTime |-> hist.inTime,
                                        error |-> out.error, msg |-> Surface(out).msg])]
    /\ UNCHANGED <<store, clock, merges, sync, relay>>

\* importDB(rawData): the host's text parses to the host's snapshot, any other
\* text makes JSON.parse throw
RetryImport ==
    /\ pair[1].calls # <<>> /\ pair[1].calls[1].pc = "import"
    /\ LET r == ImportDB(store["host"], hist.snap)
           done == hist.text = hist.data /\ r.ok
       IN /\ store' = [store EXCEPT !["host"] = IF done THEN r.store ELSE @]
          /\ Set(1, IF done
                    THEN JoinMerged(pair[1], 1, <<r.booksImported, r.logsImported>>)
                    ELSE JoinFails(pair[1], 1))
          /\ hist' = [hist EXCEPT !.tries =
                        Append(@, [targetPin |-> hist.targetPin, kind |-> hist.res.kind,
                                   inTime |-> hist.inTime,
                                   error |-> IF done THEN "none" ELSE "SyntaxError",
                                   msg |-> IF done THEN ""
                                           ELSE Surface(Throws("SyntaxError")).msg])]
    /\ UNCHANGED <<clock, merges, sync, relay>>

\* the relay's time limit passes
RelayExpires ==
    /\ ~relay.expired
    /\ relay' = [relay EXCEPT !.expired = TRUE]
    /\ UNCHANGED <<store, clock, hist, merges, sync, pair>>

RetryNext ==
    \/ \E mode \in {"host", "join"} : SelectTab(1, mode)
    \/ \E p \in Pins : RetryConnect(p)
    \/ RetryDownload
    \/ RetryOpen
    \/ RetryImport
    \/ GoBack(1)
    \/ RelayExpires

SpecRetry == RetryInit /\ [][RetryNext]_vars

\* ------------------------------------------------------ the pairing code
\* Texts are sequences of code units, as in the seal.
Separator == <<124>>                                   \* "|"
Space == 32
Undefined == <<-1>>                                    \* a missing array element
IsDigit(c) == c >= 48 /\ c <= 57

RECURSIVE SplitFrom(_, _, _)
SplitFrom(s, i, cur) ==
    IF i > Len(s) THEN <<cur>>
    ELSE IF s[i] = Separator[1] THEN <<cur>> \o SplitFrom(s, i + 1, <<>>)
    ELSE SplitFrom(s, i + 1, Append(cur, s[i]))
\* text.split('|')
Split(s) == SplitFrom(s, 1, <<>>)
\* the k-th name of an array destructuring
Element(fields, k) == IF k <= Len(fields) THEN fields[k] ELSE Undefined

RECURSIVE TrimStart(_)
TrimStart(s) == IF s # <<>> /\ s[1] = Space THEN TrimStart(Tail(s)) ELSE s
RECURSIVE TrimEnd(_)
TrimEnd(s) ==
    IF s # <<>> /\ s[Len(s)] = Space THEN TrimEnd(SubSeq(s, 1, Len(s) - 1)) ELSE s
\* String.prototype.trim (of spaces)
Trim(s) == TrimEnd(TrimStart(s))
\* the PIN field's onChange: value.replace(/\D/g, '')
DigitsOnly(s) == SelectSeq(s, IsDigit)

\* const qrValue = `${syncKey}|${pin}|${roomId}`
QrValue(syncKey, pin, roomId) == syncKey \o Separator \o pin \o Separator \o roomId

\* startJoining(targetId, targetPin, isResponse, targetRoomId) as it is called:
\* its arguments, and whether its guard on targetId and targetPin lets it run
JoinCall(targetId, targetPin, isResponse, targetRoomId) ==
    [targetId |-> targetId, targetPin |-> targetPin, isResponse |-> isResponse,
     targetRoomId |-> targetRoomId,
     runs |-> targetId # <<>> /\ Len(targetPin) >= 4]
NoCall == [runs |-> FALSE]

\* mutant: the code is read as handle and PIN only
CodeCallTwoFields(text) ==
    LET fields == Split(text)
    IN JoinCall(Element(fields, 1), Element(fields, 2), FALSE, Undefined)
\* const [id, p, rid] = text.split('|'); startJoining(id, p, false, rid)
CodeCall(text) ==
    LET fields == Split(text)
    IN JoinCall(Element(fields, 1), Element(fields, 2), FALSE, Element(fields, 3))

\* the scanner's success callback for a decoded text
ScanCallback(text) ==
    IF Includes(text, Separator) THEN CodeCall(text) ELSE NoCall
\* the click on "Connect & Sync" with the two fields of the manual form
ConnectClick(inputKey, inputPin) ==
    IF Includes(inputKey, Separator) THEN CodeCall(inputKey)
    ELSE JoinCall(inputKey, inputPin, FALSE, Undefined)

\* what startHosting generates: the relay's handle (digits), a PIN of four
\* digits, a room id in base 36 (up to eight characters, possibly none)
Handles == {<<52, 48>>, <<55, 49, 51>>}
RoomIds == {<<>>, <<105>>, <<107, 51>>}
\* other texts a camera decodes or a user types: no separator, one separator
OtherTexts == {<<52, 48>>, <<52, 48, 124, 49, 50, 51, 52>>}

\* the host shows its code in the ready view
CodeInit ==
    /\ store = [d \in Devices |-> EmptyStore]
    /\ clock = [d \in Devices |-> 0]
    /\ merges = 0
    /\ sync = "idle"
    /\ relay = <<>>
    /\ pair = <<PairInit>>
    /\ \E syncKey \in Handles, pin \in HostPins, roomId \in RoomIds :
          hist = [op |-> "shown", syncKey |-> syncKey, pin |-> pin, roomId |-> roomId,
                  code |-> QrValue(syncKey, pin, roomId)]

\* the scanner's callback runs for a text
Scanned(text) ==
    /\ hist.op = "shown"
    /\ hist' = [op |-> "scanned", syncKey |-> hist.syncKey, pin |-> hist.pin,
                roomId |-> hist.roomId, code |-> hist.code,
                text |-> text, call |-> ScanCallback(text)]
    /\ UNCHANGED <<store, clock, merges, sync, relay, pair>>

\* the joiner's camera decodes the host's code, or another text
ScanCode == \E text \in {hist.code} \cup OtherTexts : Scanned(text)

\* the click on "Connect & Sync" after the two fields were filled
Connected(typedKey, typedPin) ==
    /\ hist.op = "shown"
    /\ hist' = [op |-> "typed", syncKey |-> hist.syncKey, pin |-> hist.pin,
                roomId |-> hist.roomId, code |-> hist.code,
                text |-> Trim(typedKey),
                call |-> ConnectClick(Trim(typedKey), DigitsOnly(typedPin))]
    /\ UNCHANGED <<store, clock, merges, sync, relay, pair>>

\* the joiner fills the manual form (the host's code, the code between
\* spaces, the handle alone, or another text; the PIN, nothing, or "1a2") and
\* clicks "Connect & Sync"
ManualConnect ==
    \E typedKey \in {hist.code, <<Space>> \o hist.code \o <<Space>>, hist.syncKey}
                       \cup OtherTexts,
       typedPin \in {hist.pin, <<>>, <<49, 97, 50>>} :
       Connected(typedKey, typedPin)

CodeNext ==
    \/ ScanCode
    \/ ManualConnect

SpecCode == CodeInit /\ [][CodeNext]_vars

\* ------------------------------------------------- the response sent back
\* sendResponseBack after exportDB and encryptData (Seal) and the upload
\* request (Upload): the blob relay answered with the handle id, and the
\* message id|newPin is posted on the room's topic of the signal relay
SignalResponse(id) ==
    /\ hist.op = "uploaded"
    /\ hist' = [op |-> "signalled", data |-> hist.data, pin |-> hist.pin,
                body |-> hist.body, id |-> id,
                message |-> id \o Separator \o hist.pin]
    /\ UNCHANGED <<store, clock, merges, sync, relay, pair>>

\* the blob relay refused the upload (res.ok is false): nothing is posted
ResponseRefused ==
    /\ hist.op = "uploaded"
    /\ hist' = [op |-> "unsent", data |-> hist.data, pin |-> hist.pin, body |-> hist.body]
    /\ UNCHANGED <<store, clock, merges, sync, relay, pair>>

\* the host's pollForResponse reads the message: const [respId, respPin] =
\* data.message.split('|'); startJoining(respId, respPin, true), which opens
\* the downloaded blob with respPin
PollReads ==
    /\ hist.op = "signalled"
    /\ Includes(hist.message, Separator)
    /\ LET fields == Split(hist.message)
           call == JoinCall(Element(fields, 1), Element(fields, 2), TRUE, Undefined)
       IN hist' = [op |-> "polled", data |-> hist.data, pin |-> hist.pin,
                   body |-> hist.body, id |-> hist.id, message |-> hist.message,
                   call |-> call,
                   out |-> DecryptData(hist.body, call.targetPin)]
    /\ UNCHANGED <<store, clock, merges, sync, relay, pair>>

RespondNext ==
    \/ \E salt \in RandomValues(16), iv \in RandomValues(12) : Seal(salt, iv)
    \/ Upload
    \/ \E id \in Handles : SignalResponse(id)
    \/ ResponseRefused
    \/ PollReads

SpecRespond == SealInit /\ [][RespondNext]_vars

\* ------------------------------------------------- vocabulary of the claims
KeyOf(b) == <<b.title, b.totalPages>>
BooksWithKey(st, k) == {b \in st.books : KeyOf(b) = k}
\* the foreign Books of a snapshot (its non-null entries), and those of one key
ForeignBooks(data) ==
    IF "books" \in DOMAIN data
    THEN {data.books[i] : i \in {j \in DOMAIN data.books : ~IsNull(data.books[j])}}
    ELSE {}
ForeignOfKey(data, k) == {e \in ForeignBooks(data) : KeyOf(e) = k}
ForeignLogs(data) ==
    IF "logs" \in DOMAIN data
    THEN {data.logs[i] : i \in {j \in DOMAIN data.logs : ~IsNull(data.logs[j])}}
    ELSE {}
MinOf(S) == CHOOSE x \in S : \A y \in S : x <= y
MaxOf(S) == CHOOSE x \in S : \A y \in S : x >= y

Merged == hist.op = "import" /\ hist.ok
Failed == hist.op = "import" /\ ~hist.ok

\* the local Book a foreign Log belongs to after the merge: the first Book of
\* the natural key of the foreign Book that carries the Log's bookId
OwnersOf(st, data, extLog) ==
    {b \in st.books :
        \E e \in ForeignBooks(data) :
            /\ e.id = extLog.bookId
            /\ b = First(BooksWithKey(st, KeyOf(e)))}
\* the Logs of one Book with one page on one calendar day
SameSession(st, bookId, page, day) ==
    {l \in st.logs : l.bookId = bookId /\ l.page = page /\ Day(l.date) = day}

\* per natural key: the union fields, the Logs and the derived progress
UnionFields(st) ==
    {<<KeyOf(b), b.startDate, b.lastReadDate, b.status>> : b \in st.books}
LogRecords(st) ==
    UNION {{<<KeyOf(b), l.page, l.date>> : l \in LogsOf(st, b.id)} : b \in st.books}
LogKeys(st) ==
    UNION {{<<KeyOf(b), l.page, Day(l.date)>> : l \in LogsOf(st, b.id)} : b \in st.books}
Progress(st) == {<<KeyOf(b), CurrentPage(st, b.id)>> : b \in st.books}

\* C1: a merge never adds a Book for a natural key that exists locally (the
\* number of Books of such a key is unchanged), and a key of the snapshot that
\* was absent has exactly one Book after a merge that committed.
C1_NoDuplicateBook ==
    hist.op = "import" =>
        \A k \in NaturalKeys :
            LET n0 == Cardinality(BooksWithKey(hist.pre, k))
                n1 == Cardinality(BooksWithKey(db, k))
            IN /\ n0 >= 1 => n1 = n0
               /\ (n0 = 0 /\ hist.ok /\ ForeignOfKey(hist.snap, k) # {}) => n1 = 1
               /\ (n0 = 0 /\ ForeignOfKey(hist.snap, k) = {}) => n1 = 0

\* a committed merge of a snapshot that lists one natural key twice, under two
\* foreign ids, when the key was absent locally
C1_Witness ==
    /\ Merged
    /\ \E e \in ForeignBooks(hist.snap), f \in ForeignBooks(hist.snap) :
          /\ e.id # f.id
          /\ KeyOf(e) = KeyOf(f)
          /\ BooksWithKey(hist.pre, KeyOf(e)) = {}
          /\ Cardinality(BooksWithKey(db, KeyOf(e))) = 1

\* C2: merging the snapshot that was just merged again changes no Book, no
\* Log and no derived progress, and reports booksImported = logsImported = 0.
C2_Idempotent ==
    Merged =>
        LET again == ImportDB(db, hist.snap)
        IN /\ again.ok
           /\ again.store.books = db.books
           /\ again.store.logs = db.logs
           /\ \A b \in db.books : CurrentPage(again.store, b.id) = CurrentPage(db, b.id)
           /\ again.booksImported = 0
           /\ again.logsImported = 0

\* a merge that added a Book and a Log, so the second call meets both again
C2_Witness ==
    /\ Merged
    /\ hist.booksImported >= 1
    /\ hist.logsImported >= 1
    /\ hist.pre.logs # {}

\* C3: when importDB throws, the Record Store (Books, Logs and key generators)
\* is what it was before the call.
C3_AllOrNothing == Failed => db = hist.pre

\* a merge that threw after its transaction had already changed the Books
C3_Witness ==
    /\ Failed
    /\ ImportBody(hist.pre, hist.snap).books # hist.pre.books

\* C6: merging snapshot A and then any snapshot B gives every natural key the
\* same startDate, lastReadDate and status as merging B and then A.
C6_UnionFieldsCommute ==
    (Merged /\ hist.snap \in BookSnapshots) =>
        \A B \in BookSnapshots :
            UnionFields(ImportDB(db, B).store)
              = UnionFields(ImportDB(ImportDB(hist.pre, B).store, hist.snap).store)

\* snapshot A was merged into a store that holds its Book with other dates, and
\* a snapshot B lists the same Book with yet other dates and status
C6_Witness ==
    /\ Merged
    /\ hist.snap \in BookSnapshots
    /\ \E e \in ForeignBooks(hist.snap), b \in hist.pre.books, B \in BookSnapshots :
          /\ KeyOf(e) = KeyOf(b)
          /\ NewDate(e.startDate) < b.startDate
          /\ \E f \in ForeignBooks(B) :
                /\ KeyOf(f) = KeyOf(e)
                /\ NewDate(f.lastReadDate) > NewDate(e.lastReadDate)
                /\ f.status # e.status

\* C7 as claimed: merging A and then any B leaves, per natural key, the same
\* Log records (timestamps included) and the same derived progress as merging
\* B and then A.
C7_LogsCommute ==
    (Merged /\ hist.snap \in LogSnapshots) =>
        \A B \in LogSnapshots :
            LET ab == ImportDB(db, B).store
                ba == ImportDB(ImportDB(hist.pre, B).store, hist.snap).store
            IN /\ LogRecords(ab) = LogRecords(ba)
               /\ Progress(ab) = Progress(ba)

\* C8: for a foreign Log whose Book resolves, a local Log of the same Book,
\* page and calendar day keeps it from being inserted (whatever the time of
\* day), and without one exactly one Log of that Book, page and day exists
\* after the merge.
C8_DayBucketDedup ==
    Merged =>
        \A e \in ForeignLogs(hist.snap) :
            \A b \in OwnersOf(db, hist.snap, e) :
                LET d == Day(NewDate(e.date))
                    n0 == Cardinality(SameSession(hist.pre, b.id, e.page, d))
                    n1 == Cardinality(SameSession(db, b.id, e.page, d))
                IN /\ n0 >= 1 => n1 = n0
                   /\ n0 = 0 => n1 = 1

\* one merge met a foreign Log of a local Log's Book, page and day at another
\* time of day (not inserted) and one of the same page on another day (inserted)
C8_Witness ==
    /\ Merged
    /\ hist.logsImported = 1
    /\ \E l \in hist.pre.logs, e \in ForeignLogs(hist.snap), f \in ForeignLogs(hist.snap) :
          /\ \E b \in OwnersOf(db, hist.snap, e) : b.id = l.bookId
          /\ e.bookId = f.bookId
          /\ e.page = l.page /\ f.page = l.page
          /\ Day(NewDate(e.date)) = Day(l.date) /\ NewDate(e.date) # l.date
          /\ Day(NewDate(f.date)) # Day(l.date)
          /\ Cardinality(LogsOf(db, l.bookId)) = 2

\* C9: a local Book matched by natural key keeps its id, title and totalPages
\* and gets startDate = min and lastReadDate = max over itself and the foreign
\* Books of its key, and status completed exactly when one of them is completed.
C9_UnionOfMatched ==
    Merged =>
        \A k \in NaturalKeys :
            (BooksWithKey(hist.pre, k) # {} /\ ForeignOfKey(hist.snap, k) # {}) =>
                LET old == First(BooksWithKey(hist.pre, k))
                    ext == ForeignOfKey(hist.snap, k)
                IN \E new \in db.books :
                      /\ new.id = old.id
                      /\ new.title = old.title
                      /\ new.totalPages = old.totalPages
                      /\ new.startDate =
                           MinOf({old.startDate} \cup {NewDate(e.startDate) : e \in ext})
                      /\ new.lastReadDate =
                           MaxOf({old.lastReadDate} \cup {NewDate(e.lastReadDate) : e \in ext})
                      /\ new.status =
                           IF old.status = "completed" \/ \E e \in ext : e.status = "completed"
                           THEN "completed" ELSE "reading"

\* a matched Book whose three union fields all changed
C9_Witness ==
    /\ Merged
    /\ \E old \in hist.pre.books, new \in db.books :
          /\ new.id = old.id
          /\ ForeignOfKey(hist.snap, KeyOf(old)) # {}
          /\ new.startDate < old.startDate
          /\ new.lastReadDate > old.lastReadDate
          /\ old.status = "reading" /\ new.status = "completed"

\* C10: the counts a committed merge returns are the growth of the two tables,
\* and a Book of a key absent locally is stored with the foreign startDate and
\* lastReadDate (of the snapshot's Books of that key) and counted once.
C10_CountsAreGrowth ==
    Merged =>
        /\ hist.booksImported = Cardinality(db.books) - Cardinality(hist.pre.books)
        /\ hist.logsImported = Cardinality(db.logs) - Cardinality(hist.pre.logs)
        /\ hist.booksImported =
             Cardinality({k \in NaturalKeys : /\ BooksWithKey(hist.pre, k) = {}
                                              /\ ForeignOfKey(hist.snap, k) # {}})
        /\ \A k \in NaturalKeys :
              (BooksWithKey(hist.pre, k) = {} /\ ForeignOfKey(hist.snap, k) # {}) =>
                  \E new \in db.books :
                      /\ KeyOf(new) = k
                      /\ new.startDate =
                           MinOf({NewDate(e.startDate) : e \in ForeignOfKey(hist.snap, k)})
                      /\ new.lastReadDate =
                           MaxOf({NewDate(e.lastReadDate) : e \in ForeignOfKey(hist.snap, k)})

\* a merge into a store with a Book and a Log that added one Book and one Log
\* and matched another Book
C10_Witness ==
    /\ Merged
    /\ hist.pre.books # {} /\ hist.pre.logs # {}
    /\ hist.booksImported = 1
    /\ hist.logsImported = 1
    /\ \E e \in ForeignBooks(hist.snap) : e.startDate # e.lastReadDate


\* C5 as claimed, for stores that hold one Book per natural key and Logs of
\* pairwise distinct instants: after the joiner merged the host's snapshot and
\* the host merged the joiner's response, both devices hold the same natural
\* keys with equal startDate, lastReadDate and status, the same Log natural
\* keys and the same derived progress per Book.
WellFormed(st) ==
    /\ \A b \in st.books : Cardinality(BooksWithKey(st, KeyOf(b))) = 1
    /\ \A l \in st.logs : \A m \in st.logs : l.date = m.date => l = m
C5_Converged ==
    (/\ sync = "done"
     /\ WellFormed(store["host"])
     /\ WellFormed(store["joiner"])) =>
        /\ UnionFields(store["host"]) = UnionFields(store["joiner"])
        /\ LogKeys(store["host"]) = LogKeys(store["joiner"])
        /\ Progress(store["host"]) = Progress(store["joiner"])


\* C4 as claimed: no importDB runs for a response that the host's poll received
\* after stopPollingRef was set, so the Record Store is not changed by it.
C4_LateResponseDiscarded ==
    (hist.op = "import" /\ "late" \in DOMAIN hist) => ~hist.late


\* C11 as claimed: after a merge every Book of a natural key of the snapshot
\* has, as its stored current progress, the page of the latest of its Logs
\* (0 without Logs), whatever currentPage the snapshot carried.
C11_ProgressRecomputed ==
    hist.op = "importStored" =>
        \A b \in db.books :
            ForeignOfKey(hist.snap, KeyOf(b)) # {} =>
                (HasPage(b) /\ b.currentPage = CurrentPage(db, b.id))


\* C12 as claimed: every Book that was in the store before importDB is there
\* after it under the same id, and every Log with its id, bookId, date and page.
C12_NeverDeletes ==
    hist.op \in {"import", "importReplace"} =>
        /\ \A b \in hist.pre.books : \E n \in db.books : n.id = b.id
        /\ \A l \in hist.pre.logs : l \in db.logs


\* the step arrows of the pairing state machine: the host's path, the joiner's
\* path, and the return to idle from success
StepArrows ==
    {<<"idle", "preparing">>, <<"preparing", "ready">>, <<"ready", "joining">>,
     <<"ready", "merging">>, <<"idle", "joining">>, <<"joining", "merging">>,
     <<"joining", "success">>, <<"merging", "success">>, <<"success", "idle">>}

\* C13 as claimed: in a mounted modal, step changes only along the arrows of
\* the state machine or to error from a step other than idle, unless the user
\* pressed a tab or Go Back; so step leaves error only by such a user action.
C13_StepOrder ==
    [][\A m \in Modals :
          (pair[m].open /\ pair'[m].open /\ pair'[m].step # pair[m].step) =>
              \/ <<pair[m].step, pair'[m].step>> \in StepArrows
              \/ (pair[m].step # "idle" /\ pair'[m].step = "error")
              \/ (pair'[m].step = "idle" /\ \E mode \in {"host", "join"} : SelectTab(m, mode))
              \/ GoBack(m)]_vars

\* C13, its last clause alone: step leaves error only by a tab or Go Back.
C13_ErrorIsLeftByUser ==
    [][\A m \in Modals :
          (pair[m].open /\ pair'[m].open /\ pair[m].step = "error"
              /\ pair'[m].step # "error") =>
              \/ \E mode \in {"host", "join"} : SelectTab(m, mode)
              \/ GoBack(m)]_vars


RECURSIVE CallsInProgress(_)
\* the startJoining calls in progress on the device, over the instances m and after
CallsInProgress(m) ==
    IF m > Len(pair) THEN 0 ELSE Len(pair[m].calls) + CallsInProgress(m + 1)

\* a request for a join reaches startJoining of instance m: the form, the
\* scanner, or the poll loop
JoinRequest(m) ==
    \/ \E x \in Responses, hasRoom \in BOOLEAN : ManualJoin(m, x, hasRoom)
    \/ \E x \in Responses : ScanDecoded(m, x, TRUE)
    \/ \E r \in Rooms : PollReceives(m, r)

C15_SoftCancel ==
    [][\A m \in Modals, r \in Rooms :
          pair[m].left[r] =>
              /\ (pair[m].poll[r] = "timer" => pair'[m].poll[r] # "inflight")
              /\ (PollReceives(m, r) => pair'[m].calls = pair[m].calls)]_vars

\* the host shows room r's codes, polls for it, and the joiner's response is
\* published on the room's topic
HostAwaits(m, r) ==
    /\ m \in Modals /\ pair[m].open /\ pair[m].step = "ready"
    /\ r = pair[m].rooms /\ ~pair[m].left[r]
    /\ pair[m].poll[r] # "none" /\ pair[m].topic[r] # <<>>
    /\ JoinsStarted(1) < MaxJoins
\* the host merges a response: a startJoining call made by the poll loop is in
\* progress and step is merging
HostMerging(m) ==
    /\ m \in Modals /\ pair[m].step = "merging"
    /\ \E i \in DOMAIN pair[m].calls : pair[m].calls[i].isResponse
\* the host has merged the response and the sync is complete
HostDone(m) ==
    /\ m \in Modals /\ pair[m].step = "success" /\ pair[m].isFullyComplete
    /\ hist.op = "import" /\ hist.ok /\ hist.snap = GoodResponse
\* the host did not stay in ready: it left room r's ready view or closed the modal
HostLeft(m, r) == m \in Modals /\ (pair[m].left[r] \/ ~pair[m].open)
\* the download, the decryption or the merge of the response failed, or the
\* modal was closed meanwhile
HostGaveUp(m) == m \in Modals /\ (pair[m].step = "error" \/ ~pair[m].open)

MergesWithRoom(m, i) ==
    /\ JoinImport(m, i)
    /\ pair[m].open /\ pair[m].calls[i].hasRoom /\ ~pair[m].calls[i].isResponse
    /\ hist'.ok
\* the (title, totalPages) pairs of a snapshot's books
SnapshotKeys(data) == {KeyOf(data.books[j]) : j \in DOMAIN data.books}

\* C17 as stated: on the joiner, after the merge of a snapshot whose pairing
\* code carried a room token, the merge statistics are recorded, step is
\* merging and full completion is not yet declared.
C17_MergingWhileSending ==
    [][\A m \in Modals, i \in 1..MaxCalls :
          MergesWithRoom(m, i) =>
              /\ pair'[m].syncStats = <<hist'.booksImported, hist'.logsImported>>
              /\ pair'[m].step = "merging"
              /\ ~pair'[m].isFullyComplete]_vars

\* C17, amended: after such a merge the statistics are recorded and step is
\* success while the response is being sent; the merge itself declares no
\* completion, the snapshot sent back is exported after the merge (it holds
\* every Book of the snapshot merged), and full completion is declared when the
\* send attempt ends.
C17_SuccessWhileSending ==
    [][\A m \in Modals, i \in 1..MaxCalls :
          /\ MergesWithRoom(m, i) =>
                /\ pair'[m].syncStats = <<hist'.booksImported, hist'.logsImported>>
                /\ pair'[m].step = "success"
                /\ pair'[m].isFullyComplete = pair[m].isFullyComplete
                /\ pair'[m].calls[i].pc = "send"
          /\ (pair[m].open /\ \E ok \in BOOLEAN : JoinSend(m, i, ok)) =>
                pair'[m].isFullyComplete
          /\ JoinSend(m, i, TRUE) =>
                /\ relay'.response = ExportDB(store["host"])
                /\ SnapshotKeys(pair[m].calls[i].blob) \subseteq SnapshotKeys(relay'.response)]_vars

\* a joiner that merged a snapshot shows its statistics and is sending its
\* response back
C17_Witness ==
    \E m \in Modals :
        /\ pair[m].open /\ pair[m].step = "success" /\ ~pair[m].isFullyComplete
        /\ pair[m].syncStats # <<>>
        /\ \E i \in DOMAIN pair[m].calls : pair[m].calls[i].pc = "send"

\* a request of instance m fails in this step: the upload of startHosting, the
\* download, the decryption or the merge of call i, or the sending of its
\* response
PairingFails(m, i) ==
    \/ HostingFailed(m)
    \/ JoinDownload(m, i, FALSE)
    \/ JoinDecrypt(m, i, FALSE)
    \/ JoinImport(m, i) /\ ~hist'.ok
    \/ JoinSend(m, i, FALSE)

\* C18: every failure during pairing leaves the open modal in step error, and
\* neither in step success nor with isFullyComplete set.
C18_FailuresEndInError ==
    [][\A m \in Modals, i \in 1..MaxCalls :
          (pair[m].open /\ PairingFails(m, i)) =>
              (pair'[m].step = "error" /\ ~pair'[m].isFullyComplete)]_vars

\* a snapshot without one of its record kinds, and one whose version tag is not
\* the one the program writes
LacksKind(data) == "books" \notin DOMAIN data \/ "logs" \notin DOMAIN data
UnknownVersion(data) == "version" \in DOMAIN data /\ data.version # CurrentVersion

ResolvedLogs(data) ==
    {j \in DOMAIN data.logs : \E e \in ForeignBooks(data) : e.id = data.logs[j].bookId}
UnresolvedLogs(data) == DOMAIN data.logs \ ResolvedLogs(data)
\* a snapshot on which importDB does not throw
WellFormedSnapshot(data) ==
    /\ ~LacksKind(data)
    /\ \A i \in DOMAIN data.books : ~IsNull(data.books[i])
    /\ \A j \in DOMAIN data.logs : ~IsNull(data.logs[j])

\* C20: a merge of a snapshot that holds a Log whose bookId resolves to no Book
\* of the snapshot commits; that Log is neither inserted nor counted (every Log
\* added stems from a resolved Log and logsImported counts the Logs added), and
\* the other records are merged: every foreign Book has its local Book and every
\* resolved Log its Log of the same page and day.
C20_UnresolvedLogSkipped ==
    (/\ hist.op = "import"
     /\ WellFormedSnapshot(hist.snap)
     /\ UnresolvedLogs(hist.snap) # {}) =>
        LET data == hist.snap
            added == db.logs \ hist.pre.logs
        IN /\ hist.ok
           /\ hist.logsImported = Cardinality(added)
           /\ hist.logsImported <= Cardinality(ResolvedLogs(data))
           /\ \A l \in added : \E j \in ResolvedLogs(data) :
                 /\ l.page = data.logs[j].page
                 /\ l.date = NewDate(data.logs[j].date)
           /\ \A l \in db.logs : \E b \in db.books : b.id = l.bookId
           /\ \A e \in ForeignBooks(data) : BooksWithKey(db, KeyOf(e)) # {}
           /\ \A j \in ResolvedLogs(data) : \E l \in db.logs :
                 /\ l.page = data.logs[j].page
                 /\ Day(l.date) = Day(NewDate(data.logs[j].date))

\* a snapshot with a new Book, a Log of it and a Log of an unknown Book was
\* merged: one Book and one Log were added
C20_Witness ==
    /\ hist.op = "import" /\ hist.ok
    /\ WellFormedSnapshot(hist.snap)
    /\ UnresolvedLogs(hist.snap) # {} /\ ResolvedLogs(hist.snap) # {}
    /\ hist.booksImported = 1 /\ hist.logsImported = 1

\* C21: every payload is sealed, the seal opens under its own PIN to the
\* payload, and under any other PIN it fails with INVALID_PIN.
C21_SealOpenRoundTrip ==
    hist.op = "sealed" =>
        /\ hist.sealed.ok
        /\ DecryptData(hist.sealed.value, hist.pin) = Returns(hist.data)
        /\ \A other \in Pins \ {hist.pin} :
              DecryptData(hist.sealed.value, other) = Throws("INVALID_PIN")

\* the round trip of the payloads the engine can seal
C21_RoundTripWithinLimit ==
    (hist.op = "sealed" /\ hist.sealed.ok) =>
        /\ DecryptData(hist.sealed.value, hist.pin) = Returns(hist.data)
        /\ \A other \in Pins \ {hist.pin} :
              DecryptData(hist.sealed.value, other) = Throws("INVALID_PIN")

\* the download returned the blob, whole or damaged, and startJoining failed
FailedToOpen ==
    /\ hist.op = "opened"
    /\ hist.res.kind \in {"intact", "truncated", "corrupted"}
    /\ ~hist.out.ok

\* C22 as stated: every failure to open a downloaded blob (a wrong PIN, a
\* corrupted or a truncated blob) reaches the join routine as INVALID_PIN.
C22_OneErrorKind == FailedToOpen => hist.out.error = "INVALID_PIN"

\* C22, amended: a damaged blob never opens; every failure to open a downloaded
\* text of 50 characters or more, under a wrong PIN or damaged, reaches the join
\* routine as INVALID_PIN and is shown as an incorrect passcode; a text cut
\* below 50 characters is refused before decryptData, as EMPTY_PACKAGE or
\* NOT_FOUND.
C22_OneErrorKindWhenOpened ==
    hist.op = "opened" =>
        /\ hist.res.kind \in {"truncated", "corrupted"} => ~hist.out.ok
        /\ (hist.res.kind = "intact" /\ hist.targetPin # hist.pin) => ~hist.out.ok
        /\ (FailedToOpen /\ Len(hist.res.text) >= 50) =>
              /\ hist.out.error = "INVALID_PIN"
              /\ hist.shown = [step |-> "error", msg |-> "Incorrect Passcode."]
        /\ (FailedToOpen /\ Len(hist.res.text) < 50) =>
              hist.out.error \in {"EMPTY_PACKAGE", "NOT_FOUND"}

\* a blob with a character outside the base64 alphabet was downloaded and
\* opened with the right PIN: INVALID_PIN
C22_Witness ==
    /\ FailedToOpen
    /\ hist.res.kind = "corrupted" /\ hist.targetPin = hist.pin
    /\ ~Atob(hist.res.text).ok
    /\ hist.out.error = "INVALID_PIN"

\* the download was answered for an unknown or expired handle
UnknownHandle == hist.op = "opened" /\ hist.res.kind = "unknown"
\* what the user is shown after a transport failure
TransportShown(targetPin) ==
    {Surface(DownloadAndOpen(t, targetPin)) : t \in TransportAnswers}

C24_FailureIsRetried ==
    [][\A m \in Modals, i \in 1..MaxCalls :
          (pair[m].open /\ (HostingFailed(m) \/ JoinDownload(m, i, FALSE))) =>
              pair'[m].step # "error"]_vars

\* C25: what an upload carries is the sealed blob: it opens to the snapshot
\* under the PIN, it is not the snapshot, and its bytes do not hold the
\* snapshot's text.
C25_UploadIsSealed ==
    hist.op = "uploaded" =>
        /\ DecryptData(hist.body, hist.pin) = Returns(hist.data)
        /\ hist.body # hist.data
        /\ Atob(hist.body).ok
        /\ ~Includes(Atob(hist.body).value, TextEncode(hist.data))

\* a payload with a body was sealed and uploaded
C25_Witness == hist.op = "uploaded" /\ Len(hist.data) > 2
\* C26: the worked example (412 pages scaled to MaxPages, page 100 to
\* MaxPages - 1): a store with one Book (Dune, MaxPages) and one Log of page
\* MaxPages - 1 merges a snapshot with that Book completed, a Log of the same
\* page on the local Log's day and a Log of page MaxPages on a later day; the
\* store then holds the one Book, completed, and two Logs, the merge returns
\* booksImported = 0 and logsImported = 1 and the derived progress is MaxPages.
ScenarioKey == <<"Dune", MaxPages>>
ScenarioMerge(b, l) ==
    /\ Merged
    /\ hist.pre.books = {b} /\ hist.pre.logs = {l}
    /\ KeyOf(b) = ScenarioKey
    /\ l.bookId = b.id /\ l.page = MaxPages - 1
    /\ Len(hist.snap.books) = 1 /\ Len(hist.snap.logs) = 2
    /\ LET e == hist.snap.books[1]
           x == hist.snap.logs[1]
           y == hist.snap.logs[2]
       IN /\ KeyOf(e) = ScenarioKey /\ e.status = "completed"
          /\ x.bookId = e.id /\ y.bookId = e.id
          /\ x.page = MaxPages - 1 /\ Day(NewDate(x.date)) = Day(l.date)
          /\ y.page = MaxPages /\ Day(NewDate(y.date)) > Day(l.date)

C26_Scenario ==
    hist.op = "import" =>
        \A b \in hist.pre.books, l \in hist.pre.logs :
            ScenarioMerge(b, l) =>
                /\ Cardinality(db.books) = 1
                /\ \A n \in db.books :
                      n.id = b.id /\ KeyOf(n) = ScenarioKey /\ n.status = "completed"
                /\ Cardinality(db.logs) = 2
                /\ l \in db.logs
                /\ hist.booksImported = 0
                /\ hist.logsImported = 1
                /\ Progress(db) = {<<ScenarioKey, MaxPages>>}

\* the example's merge happened, the local Book still being read and its Log
\* recorded at another time of day than the foreign one
C26_Witness ==
    /\ hist.op = "import"
    /\ \E b \in hist.pre.books, l \in hist.pre.logs :
          /\ ScenarioMerge(b, l)
          /\ b.status = "reading"
          /\ NewDate(hist.snap.logs[1].date) # l.date

\* the merge of a snapshot that holds one Book, of a title no local Book has
NewTitleMerge(e) ==
    /\ Merged
    /\ Len(hist.snap.books) = 1
    /\ hist.snap.books[1] = e
    /\ \A b \in hist.pre.books : b.title # e.title
\* the positions of the foreign Logs of one foreign Book, and their sessions
\* (page and calendar day)
LogsOfForeign(data, e) == {j \in DOMAIN data.logs : data.logs[j].bookId = e.id}
SessionsOfForeign(data, e) ==
    {<<data.logs[j].page, Day(NewDate(data.logs[j].date))>> : j \in LogsOfForeign(data, e)}
\* the same snapshot merged once more
MergedAgain == ImportDB(db, hist.snap)

\* C27 as claimed: merging a snapshot for a title absent locally adds exactly
\* one Book and logsImported is the number of the foreign Logs of that Book;
\* merging the same snapshot again adds no Book and no Log.
C27_NewTitleAddsAllLogs ==
    hist.op = "import" =>
        \A e \in ForeignBooks(hist.snap) :
            NewTitleMerge(e) =>
                /\ hist.booksImported = 1
                /\ Cardinality({b \in db.books : b.title = e.title}) = 1
                /\ hist.logsImported = Cardinality(LogsOfForeign(hist.snap, e))
                /\ MergedAgain.ok
                /\ MergedAgain.booksImported = 0
                /\ MergedAgain.logsImported = 0

\* C27 amended: merging a snapshot for a title absent locally adds exactly one
\* Book and one Log per session (page and calendar day) of the foreign Logs of
\* that Book, logsImported being the number of those sessions; merging the
\* same snapshot again adds no Book and no Log and leaves the store as it is.
C27_NewTitleAddsSessions ==
    hist.op = "import" =>
        \A e \in ForeignBooks(hist.snap) :
            NewTitleMerge(e) =>
                /\ hist.booksImported = 1
                /\ Cardinality({b \in db.books : b.title = e.title}) = 1
                /\ hist.logsImported = Cardinality(SessionsOfForeign(hist.snap, e))
                /\ \A b \in db.books :
                      b.title = e.title =>
                          /\ Cardinality(LogsOf(db, b.id)) = hist.logsImported
                          /\ {<<l.page, Day(l.date)>> : l \in LogsOf(db, b.id)}
                                = SessionsOfForeign(hist.snap, e)
                /\ MergedAgain.ok
                /\ MergedAgain.booksImported = 0
                /\ MergedAgain.logsImported = 0
                /\ MergedAgain.store = db

\* a store with a Book and a Log merged a snapshot of another title whose two
\* Logs are of one page on two days: one Book and both Logs were added
C27_Witness ==
    /\ hist.op = "import"
    /\ hist.pre.books # {} /\ hist.pre.logs # {}
    /\ \E e \in ForeignBooks(hist.snap) :
          /\ NewTitleMerge(e)
          /\ Cardinality(LogsOfForeign(hist.snap, e)) = 2
          /\ hist.logsImported = 2
          /\ hist.booksImported = 1

\* C28: in every reachable state of one device, after any sequence of
\* registrations, progress updates, deletions and merges, there is at most one
\* Book per natural key (title, totalPages).
C28_OneBookPerKey ==
    \A k \in NaturalKeys : Cardinality(BooksWithKey(db, k)) <= 1

\* every Log is owned by a Book of the store; after a merge every added Log
\* stems from a foreign Log and carries the local id of that Log's Book
LogsOwned ==
    /\ \A l \in db.logs : \E b \in db.books : b.id = l.bookId
    /\ Merged =>
          \A l \in db.logs \ hist.pre.logs :
              \E e \in ForeignLogs(hist.snap) :
                  /\ l.page = e.page
                  /\ l.date = NewDate(e.date)
                  /\ \E b \in OwnersOf(db, hist.snap, e) : b.id = l.bookId
\* one step: a Log that stays is unchanged, no id is given twice, and a Log
\* goes only together with its Book
LogsKept ==
    \A l \in db.logs :
        /\ \A n \in store'["host"].logs : n.id = l.id => n = l
        /\ l \notin store'["host"].logs =>
              /\ \E b \in db.books : b.id = l.bookId
              /\ \A b \in store'["host"].books : b.id # l.bookId
              /\ \A o \in db.logs : o.bookId = l.bookId => o \notin store'["host"].logs

\* C29: in every reachable state every Log's bookId is the local id of an
\* existing Book of the device (a merged Log carries the local id its foreign
\* bookId was mapped to), and in every step a Log keeps its bookId, date and
\* page and is removed only together with its owning Book and that Book's
\* other Logs.
C29_LogsOwnedAndKept == [](LogsOwned) /\ [][LogsKept]_vars

\* a merge into a store with a Log added a Log whose foreign bookId differs
\* from the local id it is stored under, and the local Log is as it was
C29_Witness ==
    /\ Merged
    /\ hist.pre.logs # {}
    /\ hist.pre.logs \subseteq db.logs
    /\ \E l \in db.logs \ hist.pre.logs, e \in ForeignLogs(hist.snap) :
          /\ l.page = e.page /\ l.date = NewDate(e.date)
          /\ l.bookId # e.bookId
          /\ \E b \in db.books : b.id = l.bookId

\* the n-th attempt follows an attempt that failed on a wrong PIN and is made
\* with the host's PIN
RetryAfterWrongPin(n) ==
    /\ n > 1
    /\ hist.tries[n - 1].error = "INVALID_PIN"
    /\ hist.tries[n - 1].targetPin # hist.pin
    /\ hist.tries[n].targetPin = hist.pin

\* C30: against a relay that serves a blob once, and within its time limit, a
\* join that failed on a wrong PIN can be retried on the same handle with the
\* correct PIN, and the retry succeeds.
C30_RetrySucceeds ==
    (hist.op = "retry" /\ relay.policy = "single-use") =>
        \A n \in DOMAIN hist.tries :
            (RetryAfterWrongPin(n) /\ hist.tries[n].inTime) =>
                hist.tries[n].error = "none"

\* After a wrong PIN the error view is left by Go Back with the guard
\* released, and a retry with the correct PIN succeeds whenever the relay
\* serves the blob again.
C30_RetrySucceedsWhenServed ==
    hist.op = "retry" =>
        /\ (pair[1].step = "error" /\ pair[1].calls = <<>>) => ~pair[1].joinInProgress
        /\ \A n \in DOMAIN hist.tries :
              (RetryAfterWrongPin(n) /\ hist.tries[n].kind = "intact") =>
                  hist.tries[n].error = "none"

\* the Logs a merge added
AddedLogs == db.logs \ hist.pre.logs
\* the foreign Log at position j is the first of its Book, page and day in the
\* snapshot
FirstOfSession(data, j) ==
    \A i \in 1..(j - 1) :
        ~(/\ data.logs[i].bookId = data.logs[j].bookId
          /\ data.logs[i].page = data.logs[j].page
          /\ Day(NewDate(data.logs[i].date)) = Day(NewDate(data.logs[j].date)))

\* C31: a Log the merge inserts carries the exact instant of the foreign Log
\* it stems from: every added Log has the date and page of a foreign Log, and
\* a foreign Log that is the first of its session and meets no local Log of
\* that session is found in the store with its own instant, whatever the time
\* of day.
C31_ExactTimestampStored ==
    Merged =>
        /\ \A l \in AddedLogs :
              \E e \in ForeignLogs(hist.snap) :
                  l.date = NewDate(e.date) /\ l.page = e.page
        /\ \A j \in DOMAIN hist.snap.logs :
              LET e == hist.snap.logs[j]
              IN \A b \in OwnersOf(db, hist.snap, e) :
                    (/\ FirstOfSession(hist.snap, j)
                     /\ SameSession(hist.pre, b.id, e.page, Day(NewDate(e.date))) = {})
                    => \E l \in AddedLogs :
                          /\ l.bookId = b.id
                          /\ l.page = e.page
                          /\ l.date = NewDate(e.date)

\* a merge added a Log whose instant is neither the first nor the last of its day
C31_Witness ==
    /\ Merged
    /\ \E l \in AddedLogs :
          /\ l.date # StartOfDay(l.date)
          /\ l.date # EndOfDay(l.date)

\* the Logs whose page is above the totalPages of their Book
OutOfRange(st) ==
    {l \in st.logs : \E b \in st.books : b.id = l.bookId /\ l.page > b.totalPages}

\* C32: as long as the store was written by live entry only, every Log's page
\* is at most its Book's totalPages; a merge inserts a foreign Log whose page
\* is above the totalPages of its Book with that page, unless a Log of its
\* session exists or precedes it in the snapshot.
C32_RangeOnlyLive ==
    /\ merges = 0 => OutOfRange(db) = {}
    /\ Merged =>
          \A j \in DOMAIN hist.snap.logs :
              LET e == hist.snap.logs[j]
              IN \A b \in OwnersOf(db, hist.snap, e) :
                    (/\ e.page > b.totalPages
                     /\ FirstOfSession(hist.snap, j)
                     /\ SameSession(hist.pre, b.id, e.page, Day(NewDate(e.date))) = {})
                    => \E l \in AddedLogs \cap OutOfRange(db) :
                          l.bookId = b.id /\ l.page = e.page /\ l.date = NewDate(e.date)

\* a store with a Log in range merged a Log above its Book's totalPages
C32_Witness ==
    /\ Merged
    /\ hist.pre.logs # {} /\ OutOfRange(hist.pre) = {}
    /\ AddedLogs \cap OutOfRange(db) # {}

\* C33: when the text the joiner scans, or enters in the manual form, is the
\* code the host shows, both paths call startJoining with the handle, the PIN
\* and the room id the host generated (isResponse false), and the call passes
\* the guard on its arguments.
C33_CodeRoundTrip ==
    (hist.op \in {"scanned", "typed"} /\ hist.text = hist.code) =>
        hist.call = [targetId |-> hist.syncKey, targetPin |-> hist.pin,
                     isResponse |-> FALSE, targetRoomId |-> hist.roomId, runs |-> TRUE]

\* the manual form was given the code with spaces around it and a room id
\* that is not empty
C33_Witness ==
    /\ hist.op = "typed"
    /\ hist.text = hist.code
    /\ hist.roomId # <<>>
    /\ hist.call.runs
    /\ hist.call.targetRoomId = hist.roomId

\* C34: for every merge, a local Book keeps its id and its startDate does not
\* increase, its lastReadDate does not decrease and its status does not change
\* from completed to reading.
C34_MonotonicBooks ==
    Merged =>
        \A old \in hist.pre.books :
            \E new \in db.books :
                /\ new.id = old.id
                /\ new.startDate <= old.startDate
                /\ new.lastReadDate >= old.lastReadDate
                /\ old.status = "completed" => new.status = "completed"

\* C35: on every device, after live entries and merges of the snapshots the
\* devices export, a Book with status completed has the derived progress
\* totalPages.
C35_CompletedIsFinished ==
    \A d \in Devices :
        \A b \in store[d].books :
            b.status = "completed" => CurrentPage(store[d], b.id) = b.totalPages

\* the device has merged nothing yet in the round
Unmerged(d) ==
    \/ sync = "idle"
    \/ sync = "hosted"
    \/ sync = "joined" /\ d = "host"

\* C35 amended: on a device that has merged nothing, a completed Book has the
\* derived progress totalPages; on every device a completed Book has a Log of
\* page totalPages (after a merge its latest Log may be of a lower page).
C35_CompletedWasFinished ==
    \A d \in Devices :
        \A b \in store[d].books :
            b.status = "completed" =>
                /\ \E l \in LogsOf(store[d], b.id) : l.page = b.totalPages
                /\ Unmerged(d) => CurrentPage(store[d], b.id) = b.totalPages

\* after the round a device holds a completed Book whose latest Log, recorded
\* later on the other device, is of a lower page
C35_Witness ==
    /\ sync = "done"
    /\ \E d \in Devices :
          \E b \in store[d].books :
              /\ b.status = "completed"
              /\ CurrentPage(store[d], b.id) < b.totalPages
              /\ \E l \in LogsOf(store[d], b.id), o \in LogsOf(store[d], b.id) :
                    l.page = b.totalPages /\ o.page < b.totalPages /\ o.date > l.date

LivePolls(m) == {r \in Rooms : pair[m].poll[r] # "none"}

\* C37: at most one poll chain of the host is live at any time: once a new
\* hosting session has started, no chain of an earlier room has a request in
\* flight or a timer armed.
C37_OnePollLoop ==
    \A m \in Modals : Cardinality(LivePolls(m)) <= 1

\* joinInProgress of an instance is set exactly while a startJoining call of
\* the instance is in progress
GuardHeldByCall == \A m \in Modals : pair[m].joinInProgress <=> pair[m].calls # <<>>
\* one step: a call that finishes leaves the flag false, and a request that
\* meets the flag leaves it set
GuardStep ==
    \A m \in Modals :
        /\ Len(pair'[m].calls) < Len(pair[m].calls) => ~pair'[m].joinInProgress
        /\ (pair[m].joinInProgress /\ JoinRequest(m)) => pair'[m].joinInProgress

\* C38: joinInProgress is set exactly while the startJoining call that set it
\* is in progress: when the call finishes (success, any error, or after the
\* attempt to send the response back) the flag is false, and a call rejected
\* by the guard leaves the flag of the call in progress set.
C38_GuardReleased == [](GuardHeldByCall) /\ [][GuardStep]_vars

\* after a startJoining call ended in step error, a second call of the same
\* instance passed the guard and is in progress
C38_Witness ==
    \E m \in Modals :
        /\ pair[m].joins = 2
        /\ Len(pair[m].calls) = 1
        /\ pair[m].joinInProgress
        /\ pair[m].step \in {"joining", "merging"}

\* C39: no request body sent to a relay holds the PIN that opens a sealed
\* blob: neither the file uploaded to the blob relay nor the message posted
\* on the signal relay.
C39_PinNeverOnRelay ==
    /\ hist.op \in {"uploaded", "signalled", "unsent", "polled"} =>
          ~Includes(hist.body, hist.pin)
    /\ hist.op \in {"signalled", "polled"} =>
          ~Includes(hist.message, hist.pin)

\* The file on the blob relay never holds the PIN, and the message on the
\* signal relay is all the host needs to open it.
C39_BlobRelayAloneIsBlind ==
    /\ hist.op \in {"uploaded", "signalled", "unsent", "polled"} =>
          ~Includes(hist.body, hist.pin)
    /\ hist.op = "polled" =>
          /\ hist.call.targetId = hist.id
          /\ hist.call.targetPin = hist.pin
          /\ hist.out = Returns(hist.data)

=============================================================================
